---- MODULE Spec2Model ----
(***************************************************************************)
(* A model of the fiat-rates-cron function (src/src/main.js): one          *)
(* invocation of fetchAndSaveRates fetches fiat and crypto data over HTTP  *)
(* with retries, validates it, upserts a per-day record into the primary   *)
(* rates store and into the metadata store, and optionally migrates the    *)
(* legacy store.  The document store and the two upstream APIs are the     *)
(* environment: every HTTP request and every store operation may fail.     *)
(***************************************************************************)
EXTENDS Integers, Sequences, FiniteSets, TLC

(***************************************************************************)
(* Bounds of the model.                                                    *)
(***************************************************************************)
\* invocations of fetchAndSaveRates in one behaviour
MaxRuns == 2
\* largest max handed to a stand-alone fetchWithRetry call
MaxAttempts == 4
\* pages after which a stand-alone crypto fetch is followed no further
MaxPageCount == 12
\* store operations that fail though the store could serve them
MaxFaults == 3
\* integer-like property names told apart from other names: "0" .. "99"
MaxIndexKey == 99
\* rows of a crypto list given to the transform on its own
MaxRows == 3

(***************************************************************************)
(* Program constants.                                                      *)
(***************************************************************************)
\* fetchCryptoMarketData: const limit = 100
limit == 100
\* fetchCryptoMarketData: Number(maxPagesEnv ?? 10)
defaultMaxPages == 10
\* fetchAndSaveRates: fetchWithRetry(fiatUrl, {}, 2, ...)
fiatMax == 2
\* fetchCryptoMarketData: fetchWithRetry(url, {headers}, 3, ...)
cryptoMax == 3
\* migrateFromOldToNewDatabases: const pageSize = 100
pageSize == 100

(***************************************************************************)
(* Small helpers.                                                          *)
(***************************************************************************)
Min(a, b) == IF a <= b THEN a ELSE b

RECURSIVE Pow(_, _)
Pow(b, e) == IF e = 0 THEN 1 ELSE b * Pow(b, e - 1)

Range(s) == {s[i] : i \in 1..Len(s)}

(***************************************************************************)
(* JavaScript numbers, as far as Number(maxPagesEnv ?? 10) and             *)
(* Math.max(1, .) need them: NaN, or the rational num/den (den a power of  *)
(* ten).                                                                   *)
(***************************************************************************)
NaN == [kind |-> "NaN"]
Num(n, d) == [kind |-> "num", num |-> n, den |-> d]

DigitChars == <<"0", "1", "2", "3", "4", "5", "6", "7", "8", "9">>
IsDigit(c) == \E i \in 1..10 : DigitChars[i] = c
DigitVal(c) == (CHOOSE i \in 1..10 : DigitChars[i] = c) - 1

RECURSIVE DigitsVal(_)
\* the value of a sequence of decimal digits
DigitsVal(cs) ==
    IF cs = <<>> THEN 0
    ELSE DigitsVal(SubSeq(cs, 1, Len(cs) - 1)) * 10 + DigitVal(cs[Len(cs)])

RECURSIVE TrimLeft(_)
TrimLeft(cs) == IF cs # <<>> /\ Head(cs) = " " THEN TrimLeft(Tail(cs)) ELSE cs
RECURSIVE TrimRight(_)
TrimRight(cs) ==
    IF cs # <<>> /\ cs[Len(cs)] = " "
    THEN TrimRight(SubSeq(cs, 1, Len(cs) - 1)) ELSE cs

\* Number(s) of a string s given as its characters: white space is trimmed,
\* the empty string is 0, a signed decimal literal is its value, any other
\* text is NaN (exponents, hex literals and Infinity are not modelled).
StringToNumber(s) ==
    LET t == TrimRight(TrimLeft(s))
        signed == t # <<>> /\ Head(t) \in {"+", "-"}
        sign == IF signed /\ Head(t) = "-" THEN -1 ELSE 1
        body == IF signed THEN Tail(t) ELSE t
        dots == {i \in 1..Len(body) : body[i] = "."}
        dot == IF dots = {} THEN Len(body) + 1 ELSE CHOOSE i \in dots : TRUE
        ip == SubSeq(body, 1, dot - 1)
        fp == SubSeq(body, dot + 1, Len(body))
        wellFormed == /\ Cardinality(dots) <= 1
                      /\ \A i \in 1..Len(ip) : IsDigit(ip[i])
                      /\ \A i \in 1..Len(fp) : IsDigit(fp[i])
                      /\ Len(ip) + Len(fp) >= 1
    IN  IF t = <<>> THEN Num(0, 1)
        ELSE IF ~wellFormed THEN NaN
        ELSE Num(sign * (DigitsVal(ip) * Pow(10, Len(fp)) + DigitsVal(fp)),
                 Pow(10, Len(fp)))

\* Math.max(1, x): NaN when x is NaN
MathMax1(x) ==
    IF x.kind = "NaN" THEN NaN
    ELSE IF x.num >= x.den THEN x ELSE Num(1, 1)

\* n >= x for an integer n: false when x is NaN
GreaterEq(n, x) == x.kind # "NaN" /\ n * x.den >= x.num

(***************************************************************************)
(* Configuration: process.env as a function from the names that are set to *)
(* their values (strings as sequences of characters).  A name outside the  *)
(* domain is undefined.                                                    *)
(***************************************************************************)
\* the names checked at main.js:127-134, in the order they are checked
RequiredEnv ==
    <<"PROJECT_ID", "APPWRITE_API_KEY", "RATES_API_KEY", "RATES1_DATABASE_ID",
      "RATES_COMBINED_COLLECTION_ID", "CRYPTOMETA_DATABASE_ID",
      "CRYPTOMETA_COLLECTION_ID">>

\* !process.env[n]: undefined or the empty string
Falsy(env, n) == n \notin DOMAIN env \/ env[n] = <<>>

\* a variant that leaves out the last of the checks
missingEnvFirstSix(env) ==
    SelectSeq(SubSeq(RequiredEnv, 1, 6), LAMBDA n : Falsy(env, n))

\* the missingEnv list of main.js:126-134
missingEnv(env) == SelectSeq(RequiredEnv, LAMBDA n : Falsy(env, n))

\* env with the names of S removed (unset)
Unset(env, S) == [n \in DOMAIN env \ S |-> env[n]]
\* env with name n set to v
Set(env, n, v) == [m \in DOMAIN env \cup {n} |-> IF m = n THEN v ELSE env[m]]

\* every required value and the crypto API key set; no optional override
BaseEnv ==
    [n \in Range(RequiredEnv) \cup {"CRYPTORANK_API_KEY"} |-> <<"k">>]

LegacyEnv == Set(Set(BaseEnv, "DATABASE_ID", <<"o">>), "COLLECTION_ID", <<"c">>)

\* configurations with a required value absent
BadEnvs ==
    {Unset(BaseEnv, {n}) : n \in Range(RequiredEnv)}
    \cup {Set(Set(BaseEnv, "PROJECT_ID", <<>>), "RATES_API_KEY", <<>>),
          Unset(LegacyEnv, Range(RequiredEnv) \cup {"CRYPTORANK_API_KEY"})}

\* configurations with every required value present: the page cap overridden
\* and a migration flag other than "1"; the migration enabled with both
\* legacy ids; the migration enabled without the legacy database id; no
\* crypto API key
GoodEnvs ==
    {Set(Set(LegacyEnv, "CRYPTORANK_MAX_PAGES", <<"1">>), "MIGRATE_TO_NEW_DB", <<"0">>),
     Set(LegacyEnv, "MIGRATE_TO_NEW_DB", <<"1">>),
     Set(Unset(LegacyEnv, {"DATABASE_ID"}), "MIGRATE_TO_NEW_DB", <<"1">>),
     LegacyEnv,
     Unset(BaseEnv, {"CRYPTORANK_API_KEY"})}

Envs == BadEnvs \cup GoodEnvs

\* an optional string argument: undefined, or the string s
Undefined == [set |-> FALSE]
Str(s) == [set |-> TRUE, v |-> s]
\* process.env[n]
EnvGet(env, n) == IF n \in DOMAIN env THEN Str(env[n]) ELSE Undefined

\* the values of maxPagesEnv a stand-alone crypto fetch is given
MaxPagesEnvs ==
    {Undefined, Str(<<>>), Str(<<"0">>), Str(<<"-", "3">>), Str(<<"2", ".", "5">>),
     Str(<<"a", "b", "c">>), Str(<<"1">>), Str(<<"2">>), Str(<<" ", "3">>)}

(***************************************************************************)
(* Upstream data.                                                          *)
(***************************************************************************)
Rate(c, v) == [code |-> c, value |-> v]

\* bodies the fiat API answers with: { data: { CODE: { value } } }, the
\* entries in the object's iteration order
FiatValid ==
    {[data |-> <<Rate("USD", 1), Rate("EUR", 2), Rate("RUB", 90), Rate("GBP", 3)>>],
     [data |-> <<Rate("RUB", 91), Rate("USD", 1), Rate("EUR", 2)>>]}
FiatInvalid ==
    {[data |-> <<Rate("USD", 1), Rate("EUR", 2)>>],
     [message |-> "quota"]}
\* an entry whose value is null: { CODE: null }
NullEntry(c) == [code |-> c, isNull |-> TRUE]
IsNull(x) == "isNull" \in DOMAIN x
\* a body with every required code, one of them null
FiatMalformed ==
    {[data |-> <<Rate("USD", 1), Rate("EUR", 2), NullEntry("RUB")>>]}
FiatBodies == FiatValid \cup FiatInvalid \cup FiatMalformed

\* a row of the crypto API; id and price stand for the fields copied into the
\* metadata
Row(s, i, p) == [symbol |-> s, id |-> i, price |-> p]

Filler(i) == Row("ALT", i, 1)

\* crypto sources: the rows the API holds, served page by page
SrcShort == <<Row("BTC", 1, 60000), Row("ETH", 2, 3000)>>
SrcDup == <<Row("ETH", 2, 3000), Row("BTC", 1, 60000), Row("ETH", 3, 3100)>>
SrcNoBTC == <<Row("ETH", 2, 3000), Row("ETH", 3, 3100)>>
\* one full page and a second page of one row
SrcLong == [i \in 1..(limit + 1) |-> IF i <= limit THEN Filler(i) ELSE Row("ETH", 2, 3000)]

Finite(rows) == [kind |-> "finite", rows |-> rows]
\* a source with a full page at every offset
Endless == [kind |-> "endless"]
\* a source whose answers carry no data field
NoData == [kind |-> "nodata"]
NoSource == [kind |-> "none"]

\* the sources an invocation of the whole function may meet
CryptoSources == {Finite(SrcShort), Finite(SrcNoBTC), Finite(SrcLong), NoData}

\* the sources a stand-alone crypto fetch may meet
ProbeSources ==
    CryptoSources \cup {Finite(SrcDup), Finite(<<>>), Endless,
                        Finite([i \in 1..limit |-> Filler(i)])}

\* the body the crypto API answers GET ?limit=l&skip=s with
PageBody(src, l, s) ==
    CASE src.kind = "finite" ->
            [data |-> SubSeq(src.rows, s + 1, Min(s + l, Len(src.rows)))]
      [] src.kind = "endless" -> [data |-> [i \in 1..l |-> Filler(s + i)]]
      [] OTHER -> [status |-> "ok"]

(***************************************************************************)
(* JSON.stringify, as a sequence of tokens.                                *)
(***************************************************************************)
Quote(s) == <<"\"", s, "\"">>

RECURSIVE Join(_)
\* the elements of a sequence of token sequences, separated by commas (the
\* sequence is split in halves, which keeps the evaluation shallow)
Join(parts) ==
    IF parts = <<>> THEN <<>>
    ELSE IF Len(parts) = 1 THEN parts[1]
    ELSE LET h == Len(parts) \div 2
         IN  Join(SubSeq(parts, 1, h)) \o <<",">>
             \o Join(SubSeq(parts, h + 1, Len(parts)))

\* JSON.stringify of an array of [string, number] pairs
StringifyPairs(pairs) ==
    <<"[">>
    \o Join([i \in 1..Len(pairs) |->
                <<"[">> \o Quote(pairs[i][1]) \o <<",", ToString(pairs[i][2]), "]">>])
    \o <<"]">>

\* JSON.stringify of the symbol -> metadata object, given as its entries
StringifyMeta(entries) ==
    <<"{">>
    \o Join([i \in 1..Len(entries) |->
                Quote(entries[i].key) \o <<":", "{">>
                \o Quote("id") \o <<":", ToString(entries[i].val.id), ",">>
                \o Quote("price") \o <<":", ToString(entries[i].val.price), "}">>])
    \o <<"}">>

(***************************************************************************)
(* Transform and sanity check (main.js:236-280).                           *)
(***************************************************************************)
\* fiatJson?.data ?? {}
FiatData(fiatJson) == IF "data" \in DOMAIN fiatJson THEN fiatJson.data ELSE <<>>

\* Object.entries(data).map(([code, {value}]) => [code, value])
fiatRatesOf(fiatJson) ==
    [i \in 1..Len(FiatData(fiatJson)) |->
        <<FiatData(fiatJson)[i].code, FiatData(fiatJson)[i].value>>]

\* cryptoRaw.map((c) => [c.symbol, c.price])
cryptoRatesOf(cryptoRaw) ==
    [i \in 1..Len(cryptoRaw) |-> <<cryptoRaw[i].symbol, cryptoRaw[i].price>>]

\* a property name that is an array index: the canonical decimal of an
\* integer (those up to MaxIndexKey are told apart)
IsIndexKey(k) == \E n \in 0..MaxIndexKey : ToString(n) = k
IndexOfKey(k) == CHOOSE n \in 0..MaxIndexKey : ToString(n) = k

\* the own keys of an object are enumerated with the array indices first, in
\* ascending order, then the other names in the order they were created:
\* key a of an object comes before a key b that is new to it
KeyBefore(a, b) ==
    IF IsIndexKey(a)
    THEN ~IsIndexKey(b) \/ IndexOfKey(a) < IndexOfKey(b)
    ELSE ~IsIndexKey(b)

\* obj[e.key] = e.val, obj given as its entries in enumeration order: a key
\* already present keeps its place and takes the new value, a new key takes
\* its place in the enumeration order
PutEntry(obj, e) ==
    IF \E i \in 1..Len(obj) : obj[i].key = e.key
    THEN [i \in 1..Len(obj) |-> IF obj[i].key = e.key THEN e ELSE obj[i]]
    ELSE SelectSeq(obj, LAMBDA x : KeyBefore(x.key, e.key))
         \o <<e>>
         \o SelectSeq(obj, LAMBDA x : ~KeyBefore(x.key, e.key))

RECURSIVE PutAll(_, _)
PutAll(obj, es) ==
    IF es = <<>> THEN obj ELSE PutAll(PutEntry(obj, Head(es)), Tail(es))

RECURSIVE FromEntries(_)
\* Object.fromEntries(es): the entries are put in order (the sequence is split
\* in halves, which keeps the evaluation shallow: putting the entries of the
\* second half one by one equals putting the object they build)
FromEntries(es) ==
    IF Len(es) <= 1 THEN es
    ELSE LET h == Len(es) \div 2
         IN  PutAll(FromEntries(SubSeq(es, 1, h)),
                    FromEntries(SubSeq(es, h + 1, Len(es))))

cryptoMetaOf(cryptoRaw) ==
    FromEntries([i \in 1..Len(cryptoRaw) |->
        [key |-> cryptoRaw[i].symbol,
         val |-> [id |-> cryptoRaw[i].id, price |-> cryptoRaw[i].price]]])

mustHaveFiat == <<"USD", "EUR", "RUB">>

missingFiat(fiatRates) ==
    SelectSeq(mustHaveFiat,
              LAMBDA c : ~\E i \in 1..Len(fiatRates) : fiatRates[i][1] = c)

hasBTC(cryptoRates) == \E i \in 1..Len(cryptoRates) : cryptoRates[i][1] = "BTC"

\* a variant that checks the fiat codes only
SanityOkFiatOnly(fiatRates, cryptoRates) == missingFiat(fiatRates) = <<>>

\* the condition of main.js:273 negated: the run may go on to the upserts
SanityOk(fiatRates, cryptoRates) ==
    missingFiat(fiatRates) = <<>> /\ hasBTC(cryptoRates)

(***************************************************************************)
(* Date keying (main.js:283-285).                                          *)
(***************************************************************************)
Pad2(n) == IF n < 10 THEN "0" \o ToString(n) ELSE ToString(n)

\* new Date().toLocaleDateString("en-GB") on day `day` of November 2026
toLocaleDateStringGB(day) == <<Pad2(day), "/", "11", "/", "2026">>

RECURSIVE JoinStr(_)
JoinStr(parts) == IF parts = <<>> THEN "" ELSE Head(parts) \o JoinStr(Tail(parts))

\* .replace(/\//g, "")
DateKey(day) ==
    JoinStr(SelectSeq(toLocaleDateStringGB(day), LAMBDA t : t # "/"))

(***************************************************************************)
(* The document store (node-appwrite Databases): a collection is the       *)
(* sequence of its documents in creation order.                            *)
(***************************************************************************)
\* listDocuments(db, coll, [Query.equal("date", d)]).documents
listByDate(coll, d) ==
    SelectSeq(coll, LAMBDA doc : "date" \in DOMAIN doc /\ doc.date = d)

HasId(coll, id) == \E i \in 1..Len(coll) : coll[i].id = id

\* createDocument(db, coll, id, data), which the store refuses when a document
\* with that id exists
createDocument(coll, id, data) ==
    Append(coll, [f \in DOMAIN data \cup {"id"} |-> IF f = "id" THEN id ELSE data[f]])

\* updateDocument(db, coll, id, data), which the store refuses when no
\* document has that id: the fields of data replace the document's
updateDocument(coll, id, data) ==
    [i \in 1..Len(coll) |->
        IF coll[i].id = id
        THEN [f \in DOMAIN coll[i] \cup DOMAIN data |->
                 IF f \in DOMAIN data THEN data[f] ELSE coll[i][f]]
        ELSE coll[i]]

\* ID.unique(): an identifier no document carries yet
UniqueId(n) == "u" \o ToString(n)

\* one entry of the log of store operations of a run
Op(store, op, id, ok) == [store |-> store, op |-> op, id |-> id, ok |-> ok]

(***************************************************************************)
(* fetchWithRetry (main.js:21-51): the state of one call.                  *)
(***************************************************************************)
IdleFetch ==
    [st |-> "idle", attempt |-> 0, max |-> 0, waits |-> <<>>, sent |-> 0,
     err |-> "", body |-> <<>>]

\* the call has run to its first await: request 1 is in flight
fwCall(max) ==
    [st |-> "inflight", attempt |-> 1, max |-> max, waits |-> <<>>, sent |-> 1,
     err |-> "", body |-> <<>>]

\* the request succeeded with a parsed body: return it (main.js:39-41)
fwOnSuccess(s, body) == [s EXCEPT !.st = "returned", !.body = body]

\* 2 ** attempt * 1000 milliseconds (main.js:48)
Backoff(attempt) == Pow(2, attempt) * 1000

\* a variant that gives up one attempt late
fwOnFailureOneMore(s, e) ==
    IF s.attempt = s.max + 1
    THEN [s EXCEPT !.st = "threw", !.err = e]
    ELSE [s EXCEPT !.st = "waiting", !.err = e,
                   !.waits = Append(@, Backoff(s.attempt))]

\* the request failed with error e (main.js:42-49): rethrow after the last
\* attempt, else start the backoff timer
fwOnFailure(s, e) ==
    IF s.attempt = s.max
    THEN [s EXCEPT !.st = "threw", !.err = e]
    ELSE [s EXCEPT !.st = "waiting", !.err = e,
                   !.waits = Append(@, Backoff(s.attempt))]

\* the backoff timer fired: the loop's next iteration sends the next request
fwOnTimer(s) ==
    [s EXCEPT !.st = "inflight", !.attempt = @ + 1, !.sent = @ + 1, !.err = ""]

\* what makes a request fail: a non-success status, a network error, the
\* abort by the per-request timeout
HttpErrors == {"HTTP 500", "timeout 10000ms"}

(***************************************************************************)
(* fetchCryptoMarketData (main.js:433-474): the locals of one call.        *)
(***************************************************************************)
IdleCrypto ==
    [st |-> "idle", pageCount |-> 0, skip |-> 0, out |-> <<>>,
     maxPages |-> Num(0, 1), maxPagesEnv |-> Undefined, offsets |-> <<>>,
     reason |-> ""]

\* Math.max(1, Number(maxPagesEnv ?? 10))  (main.js:446)
maxPagesOf(maxPagesEnv) ==
    MathMax1(IF maxPagesEnv.set THEN StringToNumber(maxPagesEnv.v)
             ELSE Num(defaultMaxPages, 1))

\* a variant that requests page 1 whether a key is given or not
cryptoCallKeyless(apiKey, maxPagesEnv) ==
    [IdleCrypto EXCEPT !.st = "running", !.pageCount = 1,
                       !.maxPagesEnv = maxPagesEnv,
                       !.maxPages = maxPagesOf(maxPagesEnv),
                       !.offsets = <<0>>]

\* the call up to its first await: without a key it returns [] at once,
\* otherwise page 1 is requested at offset 0
cryptoCall(apiKey, maxPagesEnv) ==
    IF ~apiKey.set \/ apiKey.v = <<>>
    THEN [IdleCrypto EXCEPT !.st = "fulfilled"]
    ELSE [IdleCrypto EXCEPT !.st = "running", !.pageCount = 1,
                            !.maxPagesEnv = maxPagesEnv,
                            !.maxPages = maxPagesOf(maxPagesEnv),
                            !.offsets = <<0>>]

\* const { data = [] } = body
PageData(body) == IF "data" \in DOMAIN body THEN body.data ELSE <<>>

\* a variant whose cap check is strict (pageCount > maxPages)
cryptoOnPageStrict(c, data) ==
    IF Len(data) < limit \/ GreaterEq(c.pageCount - 1, c.maxPages)
    THEN [c EXCEPT !.st = "fulfilled", !.out = @ \o data]
    ELSE [c EXCEPT !.out = @ \o data, !.skip = @ + limit,
                   !.pageCount = @ + 1, !.offsets = Append(@, c.skip + limit)]

\* the loop body after a page arrived (main.js:462-471), up to the next
\* request or the return
cryptoOnPage(c, data) ==
    IF Len(data) < limit \/ GreaterEq(c.pageCount, c.maxPages)
    THEN [c EXCEPT !.st = "fulfilled", !.out = @ \o data]
    ELSE [c EXCEPT !.out = @ \o data, !.skip = @ + limit,
                   !.pageCount = @ + 1, !.offsets = Append(@, c.skip + limit)]

(***************************************************************************)
(* The legacy store the migration reads.  A legacy field that may be a     *)
(* string or a raw structure carries its JavaScript type.                  *)
(***************************************************************************)
JsString(tokens) == [type |-> "string", v |-> tokens]
JsArray(pairs) == [type |-> "object", v |-> pairs]

LegacyToday ==
    [id |-> "old1", date |-> DateKey(1),
     fiatRates |-> JsString(StringifyPairs(<<<<"USD", 7>>>>)),
     cryptoRates |-> JsArray(<<<<"BTC", 5>>>>)]
\* a record of the oldest layout: no date field, the identifier is the date
LegacyBare == [id |-> "31102026"]
LegacySmall == <<LegacyToday, LegacyBare>>

(***************************************************************************)
(* State.                                                                  *)
(***************************************************************************)
VARIABLES
    clock,        \* the day of the month the server's clock shows
    runs,         \* invocations of fetchAndSaveRates started so far
    pc,           \* where the current invocation stands
    env,          \* process.env as read by the current invocation
    globalCtx,    \* globalThis.__appwriteCtx: the invocation that set it last
    crash,        \* what the global crash handlers did since the last entry
    fw,           \* the fetchWithRetry call of each fetcher
    cr,           \* the locals of fetchCryptoMarketData
    cryptoSrc,    \* the rows the crypto API holds while it is paged through
    script,       \* what the upstream of a stand-alone fetchWithRetry call answers
    fiatRes,      \* fiatPromise
    cryptoRes,    \* cryptoPromise
    fiatJson,     \* the fiat body the invocation works on
    cryptoRaw,    \* the crypto rows the invocation works on
    dateStr,      \* the date key of the invocation
    ratesRecord,  \* the record to upsert into the primary store
    ratesDocId,   \* the identifier of the primary record
    ratesStore,   \* the primary rates collection
    metaStore,    \* the metadata collection
    legacyStore,  \* the legacy collection
    nextId,       \* the next identifier ID.unique() hands out
    ops,          \* the store operations of the daily upserts of this invocation
    mig,          \* the locals of migrateFromOldToNewDatabases
    faults,       \* store operations that failed though the store could serve them
    result,       \* what the invocation returned
    prev          \* what the previous invocation did

vars ==
    <<clock, runs, pc, env, globalCtx, crash, fw, cr, cryptoSrc, script, fiatRes, cryptoRes,
      fiatJson, cryptoRaw, dateStr, ratesRecord, ratesDocId, ratesStore,
      metaStore, legacyStore, nextId, faults, ops, mig, result, prev>>

procVars == <<clock, runs, env, globalCtx, crash, prev>>
fetchVars == <<fw, cr, cryptoSrc, script, fiatRes, cryptoRes>>
localVars == <<fiatJson, cryptoRaw, dateStr, ratesRecord>>
storeVars == <<ratesStore, metaStore, legacyStore, nextId, faults>>

Fetchers == {"fiat", "crypto", "probe"}

\* a promise: not created, pending, or settled
NoPromise == [status |-> "none"]
Pending == [status |-> "pending"]
Fulfilled(v) == [status |-> "fulfilled", value |-> v]
Rejected(r) == [status |-> "rejected", reason |-> r]

NoResult == [kind |-> "none"]
NoBody == [kind |-> "none"]
NoRecord == [date |-> ""]
NoPrev == [kind |-> "none"]
NoCrash == [kind |-> "none"]

IdleMig ==
    [st |-> "off", cursor |-> "", page |-> <<>>, idx |-> 0, scanned |-> 0,
     movedRates |-> 0, rId |-> "", lists |-> 0, ops |-> <<>>, touched |-> {}]

\* okRes(context, { ok: true, ratesDocId }, 200)
okRes(id) == [kind |-> "result", ok |-> TRUE, ratesDocId |-> id, status |-> 200]

\* a variant that lets the failure escape instead of returning a result
errResThrown(message, extra, status) == [kind |-> "thrown", error |-> message]

\* errRes(context, message, extra, status)
errRes(message, extra, status) ==
    [kind |-> "result", ok |-> FALSE, error |-> message, extra |-> extra,
     status |-> status]

Returned == result.kind = "result"
Succeeded == Returned /\ result.ok
Failed(message) == Returned /\ ~result.ok /\ result.error = message

\* no invocation yet, nothing stored in the new stores
InitRest ==
    /\ clock = 1
    /\ runs = 0
    /\ env = BaseEnv
    /\ globalCtx = 0
    /\ crash = NoCrash
    /\ fiatRes = NoPromise
    /\ cryptoRes = NoPromise
    /\ fiatJson = NoBody
    /\ cryptoRaw = <<>>
    /\ dateStr = ""
    /\ ratesRecord = NoRecord
    /\ ratesDocId = ""
    /\ ratesStore = <<>>
    /\ metaStore = <<>>
    /\ legacyStore = LegacySmall
    /\ nextId = 1
    /\ faults = 0
    /\ ops = <<>>
    /\ mig = IdleMig
    /\ result = NoResult
    /\ prev = NoPrev

Init ==
    /\ pc = "idle"
    /\ fw = [f \in Fetchers |-> IdleFetch]
    /\ cr = IdleCrypto
    /\ cryptoSrc = NoSource
    /\ script = <<>>
    /\ InitRest

(***************************************************************************)
(* The clock moves on to the next day.  It is read once per invocation     *)
(* (main.js:283), so a change during an invocation shows as one before or  *)
(* after it, and several days between two invocations show as one.         *)
(***************************************************************************)
Tick ==
    /\ pc = "done"
    /\ runs < MaxRuns
    /\ clock <= runs
    /\ clock' = clock + 1
    /\ UNCHANGED <<runs, pc, env, globalCtx, crash, prev, fetchVars, localVars,
                   ratesDocId, storeVars, ops, mig, result>>

(***************************************************************************)
(* fetchAndSaveRates, entry to Promise.allSettled (main.js:84-205).        *)
(***************************************************************************)
\* what an invocation leaves for the next one to be compared with
Summary ==
    IF runs = 0 THEN NoPrev
    ELSE IF Succeeded
    THEN [kind |-> "run", ok |-> TRUE, dateStr |-> dateStr, fiat |-> fiatJson,
          crypto |-> cryptoRaw, ratesDocId |-> ratesDocId]
    ELSE [kind |-> "run", ok |-> FALSE]

Start(e) ==
    /\ pc \in {"idle", "done"}
    /\ runs < MaxRuns
    /\ runs' = runs + 1
    /\ env' = e
    /\ globalCtx' = runs + 1
    /\ crash' = NoCrash
    /\ prev' = Summary
    /\ cryptoSrc' = NoSource
    /\ fiatJson' = NoBody
    /\ cryptoRaw' = <<>>
    /\ dateStr' = ""
    /\ ratesRecord' = NoRecord
    /\ ratesDocId' = ""
    /\ ops' = <<>>
    /\ mig' = IdleMig
    /\ IF missingEnv(e) # <<>>
       THEN /\ result' = errRes("Missing required env vars",
                                [missingEnv |-> missingEnv(e)], 500)
            /\ pc' = "done"
            /\ fw' = [f \in Fetchers |-> IdleFetch]
            /\ cr' = IdleCrypto
            /\ fiatRes' = NoPromise
            /\ cryptoRes' = NoPromise
       ELSE /\ result' = NoResult
            /\ pc' = "fetching"
            /\ fiatRes' = Pending
            /\ LET c == cryptoCall(EnvGet(e, "CRYPTORANK_API_KEY"),
                                   EnvGet(e, "CRYPTORANK_MAX_PAGES"))
               IN  /\ cr' = IF c.st = "running" THEN c ELSE IdleCrypto
                   /\ cryptoRes' = IF c.st = "running" THEN Pending
                                   ELSE Fulfilled(c.out)
                   /\ fw' = [f \in Fetchers |->
                               CASE f = "fiat" -> fwCall(fiatMax)
                                 [] f = "crypto" /\ c.st = "running" ->
                                      fwCall(cryptoMax)
                                 [] OTHER -> IdleFetch]
    /\ UNCHANGED <<clock, script, storeVars>>

(***************************************************************************)
(* HTTP: answers, failures and backoff timers.  When a call of the         *)
(* invocation returns or throws, its promise settles and its locals are    *)
(* gone.                                                                   *)
(***************************************************************************)
\* the fiat API answers the request in flight with a body
FiatOk(body) ==
    /\ pc = "fetching"
    /\ fw["fiat"].st = "inflight"
    /\ fiatRes' = Fulfilled(fwOnSuccess(fw["fiat"], body).body)
    /\ fw' = [fw EXCEPT !["fiat"] = IdleFetch]
    /\ UNCHANGED <<pc, procVars, script, cr, cryptoSrc, cryptoRes, localVars, ratesDocId,
                   storeVars, ops, mig, result>>

\* the fiat request in flight fails with error e
FiatFail(e) ==
    /\ pc = "fetching"
    /\ fw["fiat"].st = "inflight"
    /\ LET s == fwOnFailure(fw["fiat"], e)
       IN  /\ fw' = [fw EXCEPT !["fiat"] = IF s.st = "threw" THEN IdleFetch ELSE s]
           /\ fiatRes' = IF s.st = "threw" THEN Rejected(s.err) ELSE fiatRes
    /\ UNCHANGED <<pc, procVars, script, cr, cryptoSrc, cryptoRes, localVars, ratesDocId,
                   storeVars, ops, mig, result>>

\* the crypto API answers the page request in flight; the loop goes on to the
\* next page or returns
CryptoPage(src) ==
    /\ pc = "fetching"
    /\ fw["crypto"].st = "inflight"
    /\ cryptoSrc \in {NoSource, src}
    /\ LET c == cryptoOnPage(cr, PageData(PageBody(src, limit, cr.skip)))
       IN  IF c.st = "running"
           THEN /\ cr' = c
                /\ cryptoSrc' = src
                /\ fw' = [fw EXCEPT !["crypto"] = fwCall(cryptoMax)]
                /\ cryptoRes' = cryptoRes
           ELSE /\ cr' = IdleCrypto
                /\ cryptoSrc' = NoSource
                /\ fw' = [fw EXCEPT !["crypto"] = IdleFetch]
                /\ cryptoRes' = Fulfilled(c.out)
    /\ UNCHANGED <<pc, procVars, script, fiatRes, localVars, ratesDocId, storeVars, ops,
                   mig, result>>

\* the crypto page request in flight fails with error e
CryptoFail(e) ==
    /\ pc = "fetching"
    /\ fw["crypto"].st = "inflight"
    /\ LET s == fwOnFailure(fw["crypto"], e)
       IN  IF s.st = "threw"
           THEN /\ fw' = [fw EXCEPT !["crypto"] = IdleFetch]
                /\ cr' = IdleCrypto
                /\ cryptoSrc' = NoSource
                /\ cryptoRes' = Rejected(s.err)
           ELSE /\ fw' = [fw EXCEPT !["crypto"] = s]
                /\ UNCHANGED <<cr, cryptoSrc, cryptoRes>>
    /\ UNCHANGED <<pc, procVars, script, fiatRes, localVars, ratesDocId, storeVars, ops,
                   mig, result>>

\* the backoff timer of fetcher f fires
Timer(f) ==
    /\ fw[f].st = "waiting"
    /\ fw' = [fw EXCEPT ![f] = fwOnTimer(@)]
    /\ UNCHANGED <<pc, procVars, script, cr, cryptoSrc, fiatRes, cryptoRes, localVars,
                   ratesDocId, storeVars, ops, mig, result>>

\* the record of main.js:289-293
ratesRecordOf(d, fiat, crypto) ==
    [date |-> d,
     fiatRates |-> StringifyPairs(fiatRatesOf(fiat)),
     cryptoRates |-> StringifyPairs(cryptoRatesOf(crypto))]

\* a variant that reports the crypto branch first
fetchFailureCryptoFirst(f, c) ==
    IF c.status # "fulfilled"
    THEN errRes("Crypto fetch failed", [reason |-> c.reason], 502)
    ELSE IF f.status # "fulfilled"
    THEN errRes("Fiat fetch failed", [reason |-> f.reason], 502)
    ELSE NoResult

\* main.js:207-227: the failure result of the settled fetches f (fiat) and
\* c (crypto), NoResult when both are fulfilled
fetchFailure(f, c) ==
    IF f.status # "fulfilled"
    THEN errRes("Fiat fetch failed", [reason |-> f.reason], 502)
    ELSE IF c.status # "fulfilled"
    THEN errRes("Crypto fetch failed", [reason |-> c.reason], 502)
    ELSE NoResult

\* the transform of main.js:237-263 throws a TypeError: destructuring
\* { value } of a null entry, or reading a property of a null row
transformThrows(fiat, crypto) ==
    \/ \E i \in 1..Len(FiatData(fiat)) : IsNull(FiatData(fiat)[i])
    \/ \E i \in 1..Len(crypto) : IsNull(crypto[i])

AfterFetch ==
    /\ pc = "fetching"
    /\ fiatRes.status \in {"fulfilled", "rejected"}
    /\ cryptoRes.status \in {"fulfilled", "rejected"}
    /\ IF fetchFailure(fiatRes, cryptoRes) # NoResult
       THEN /\ result' = fetchFailure(fiatRes, cryptoRes)
            /\ pc' = "done"
            /\ UNCHANGED localVars
       ELSE IF transformThrows(fiatRes.value, cryptoRes.value)
       THEN /\ fiatJson' = fiatRes.value
            /\ cryptoRaw' = cryptoRes.value
            /\ result' = errRes("Fatal error", [stack |-> "TypeError"], 500)
            /\ pc' = "done"
            /\ UNCHANGED <<dateStr, ratesRecord>>
       ELSE LET fiatRates == fiatRatesOf(fiatRes.value)
                cryptoRates == cryptoRatesOf(cryptoRes.value)
            IN  /\ fiatJson' = fiatRes.value
                /\ cryptoRaw' = cryptoRes.value
                /\ IF ~SanityOk(fiatRates, cryptoRates)
                   THEN /\ result' = errRes("Sanity check failed",
                                     [missingFiat |-> missingFiat(fiatRates),
                                      hasBTC |-> hasBTC(cryptoRates)], 500)
                        /\ pc' = "done"
                        /\ UNCHANGED <<dateStr, ratesRecord>>
                   ELSE /\ dateStr' = DateKey(clock)
                        /\ ratesRecord' = ratesRecordOf(DateKey(clock), fiatRes.value,
                                                        cryptoRes.value)
                        /\ pc' = "lookup"
                        /\ result' = result
    /\ fiatRes' = NoPromise
    /\ cryptoRes' = NoPromise
    /\ UNCHANGED <<procVars, fw, cr, cryptoSrc, script, ratesDocId, storeVars, ops, mig>>

(***************************************************************************)
(* What the store answers.  An operation the store can carry out succeeds  *)
(* or fails ("unavailable") with no effect; one it must refuse fails.      *)
(***************************************************************************)
Outcomes(possible, refusal) ==
    IF possible THEN {"ok", "unavailable"} ELSE {refusal}

Faulty(res) == res \in {"unavailable", "query failed"}

\* the store answers res: at most MaxFaults operations fail though the store
\* could serve them
Answer(res) ==
    /\ Faulty(res) => faults < MaxFaults
    /\ faults' = IF Faulty(res) THEN faults + 1 ELSE faults

(***************************************************************************)
(* migrateFromOldToNewDatabases (main.js:500-581).                         *)
(***************************************************************************)
Reverse(s) == [i \in 1..Len(s) |-> s[Len(s) + 1 - i]]

\* listDocuments(old, [orderDesc("$createdAt"), limit(pageSize),
\* cursorAfter(cursor)]).documents; the cursor is left out when it is falsy
LegacyPage(coll, cursor, size) ==
    LET desc == Reverse(coll)
        at == {i \in 1..Len(desc) : desc[i].id = cursor}
        from == IF cursor = "" \/ at = {} THEN 1 ELSE (CHOOSE i \in at : TRUE) + 1
    IN  SubSeq(desc, from, Min(from + size - 1, Len(desc)))

\* doc.date || doc.$id
migratedDate(doc) ==
    IF "date" \in DOMAIN doc /\ doc.date # "" THEN doc.date ELSE doc.id

\* typeof v === "string" ? v : JSON.stringify(v ?? fallback)
normalize(doc, field, fallback) ==
    IF field \notin DOMAIN doc THEN fallback
    ELSE IF doc[field].type = "string" THEN doc[field].v
    ELSE StringifyPairs(doc[field].v)

\* the record of main.js:529-539
migRecordOf(doc) ==
    [date |-> migratedDate(doc),
     fiatRates |-> normalize(doc, "fiatRates", <<"{", "}">>),
     cryptoRates |-> normalize(doc, "cryptoRates", <<"[", "]">>)]

\* a variant without the check of the legacy ids
migCallUnchecked(e) == [IdleMig EXCEPT !.st = "listing"]

\* the call up to its first await (main.js:508-523): without both legacy ids
\* it returns at once
migCall(e) ==
    IF Falsy(e, "DATABASE_ID") \/ Falsy(e, "COLLECTION_ID")
    THEN [IdleMig EXCEPT !.st = "skipped"]
    ELSE [IdleMig EXCEPT !.st = "listing"]

\* the legacy page arrived (main.js:523-527)
migOnPage(m, page) ==
    IF page = <<>>
    THEN [m EXCEPT !.st = "complete", !.lists = @ + 1, !.page = page]
    ELSE [m EXCEPT !.st = "lookup", !.lists = @ + 1, !.page = page, !.idx = 1,
                   !.scanned = @ + 1]

\* a variant that asks for the next page without moving the cursor
migAdvanceSameCursor(m, ok) ==
    LET n == [m EXCEPT !.movedRates = IF ok THEN @ + 1 ELSE @]
    IN  IF m.idx < Len(m.page)
        THEN [n EXCEPT !.st = "lookup", !.idx = @ + 1, !.scanned = @ + 1]
        ELSE IF Len(m.page) < pageSize
        THEN [n EXCEPT !.st = "complete"]
        ELSE [n EXCEPT !.st = "listing"]

\* a variant that counts every record, failed or not
migAdvanceCountAll(m, ok) ==
    LET n == [m EXCEPT !.movedRates = @ + 1]
    IN  IF m.idx < Len(m.page)
        THEN [n EXCEPT !.st = "lookup", !.idx = @ + 1, !.scanned = @ + 1]
        ELSE IF Len(m.page) < pageSize
        THEN [n EXCEPT !.st = "complete", !.cursor = m.page[Len(m.page)].id]
        ELSE [n EXCEPT !.st = "listing", !.cursor = m.page[Len(m.page)].id]

\* the upsert of the current record is over (ok tells whether it raised no
\* failure): on to the next record, the next page, or the end
\* (main.js:565-577)
migAdvance(m, ok) ==
    LET n == [m EXCEPT !.movedRates = IF ok THEN @ + 1 ELSE @]
    IN  IF m.idx < Len(m.page)
        THEN [n EXCEPT !.st = "lookup", !.idx = @ + 1, !.scanned = @ + 1]
        ELSE IF Len(m.page) < pageSize
        THEN [n EXCEPT !.st = "complete", !.cursor = m.page[Len(m.page)].id]
        ELSE [n EXCEPT !.st = "listing", !.cursor = m.page[Len(m.page)].id]

MigOver(m) == m.st \in {"skipped", "complete", "crashed"}

\* where the invocation stands when the migration is in state m
pcOfMig(m) ==
    CASE MigOver(m) -> "done"
      [] m.st = "listing" -> "migList"
      [] m.st = "lookup" -> "migLookup"
      [] m.st = "update" -> "migUpdate"
      [] m.st = "create" -> "migCreate"

\* main.js:399-424: the optional migration, then the success result
afterUpserts(e, id) ==
    IF EnvGet(e, "MIGRATE_TO_NEW_DB") = Str(<<"1">>)
    THEN LET m == migCall(e)
         IN  [mig |-> m, pc |-> pcOfMig(m),
              result |-> IF MigOver(m) THEN okRes(id) ELSE NoResult]
    ELSE [mig |-> IdleMig, pc |-> "done", result |-> okRes(id)]

\* a variant that calls the migration without waiting for the metadata upsert
afterRatesEager(e, crypto, id) ==
    IF Len(crypto) > 0
    THEN [mig |-> migCall(e), pc |-> "metaCreate", result |-> NoResult]
    ELSE afterUpserts(e, id)

\* a variant that always takes the branch without a metadata upsert
afterRatesSkipMeta(e, crypto, id) == afterUpserts(e, id)

\* main.js:361-397: the metadata upsert is skipped without crypto rows
afterRates(e, crypto, id) ==
    IF Len(crypto) > 0
    THEN [mig |-> IdleMig, pc |-> "metaCreate", result |-> NoResult]
    ELSE afterUpserts(e, id)

Goto(next) ==
    /\ pc' = next.pc
    /\ mig' = next.mig
    /\ result' = next.result

(***************************************************************************)
(* The primary-store upsert (main.js:295-359).                             *)
(***************************************************************************)
\* main.js:298-323: after the lookup by date answered with `found`
pcAfterLookup(res, found) ==
    IF res # "ok" THEN "createById"
    ELSE IF Len(found) > 0 THEN "update" ELSE "create"

\* main.js:303-305 and 331: the identifier the next operation is issued under
idAfterLookup(res, found, fresh, d) ==
    IF res # "ok" THEN d
    ELSE IF Len(found) > 0 THEN found[1].id ELSE fresh

RatesLookup(res) ==
    /\ pc = "lookup"
    /\ res \in {"ok", "query failed"}
    /\ Answer(res)
    /\ LET found == listByDate(ratesStore, dateStr)
       IN  /\ ratesDocId' = idAfterLookup(res, found, UniqueId(nextId), dateStr)
           /\ nextId' = IF res = "ok" /\ Len(found) = 0 THEN nextId + 1 ELSE nextId
           /\ pc' = pcAfterLookup(res, found)
    /\ ops' = Append(ops, Op("rates", "list", dateStr, res))
    /\ UNCHANGED <<procVars, fetchVars, localVars, ratesStore, metaStore, legacyStore, mig, result>>

\* a variant that keeps the identifier of the failed operation
idAfterWriteKept(res, id, d) == id

\* main.js:331: the catch block replaces the identifier by the date string
idAfterWrite(res, id, d) == IF res = "ok" THEN id ELSE d

\* main.js:324-331: a failure of the update or the create inside the try
\* block falls back to the date string as identifier
afterWrite(res, e, crypto, id) ==
    IF res = "ok" THEN afterRates(e, crypto, id)
    ELSE [mig |-> IdleMig, pc |-> "createById", result |-> NoResult]

\* updateDocument of the record found by the lookup (main.js:309-314)
RatesUpdate(res) ==
    /\ pc = "update"
    /\ res \in Outcomes(HasId(ratesStore, ratesDocId), "not found")
    /\ Answer(res)
    /\ ratesStore' = IF res = "ok"
                     THEN updateDocument(ratesStore, ratesDocId, ratesRecord)
                     ELSE ratesStore
    /\ ratesDocId' = idAfterWrite(res, ratesDocId, dateStr)
    /\ ops' = Append(ops, Op("rates", "update", ratesDocId, res))
    /\ Goto(afterWrite(res, env, cryptoRaw, ratesDocId))
    /\ UNCHANGED <<procVars, fetchVars, localVars, metaStore, legacyStore, nextId>>

\* createDocument under the generated identifier (main.js:317-322)
RatesCreate(res) ==
    /\ pc = "create"
    /\ res \in Outcomes(~HasId(ratesStore, ratesDocId), "conflict")
    /\ Answer(res)
    /\ ratesStore' = IF res = "ok"
                     THEN createDocument(ratesStore, ratesDocId, ratesRecord)
                     ELSE ratesStore
    /\ ratesDocId' = idAfterWrite(res, ratesDocId, dateStr)
    /\ ops' = Append(ops, Op("rates", "create", ratesDocId, res))
    /\ Goto(afterWrite(res, env, cryptoRaw, ratesDocId))
    /\ UNCHANGED <<procVars, fetchVars, localVars, metaStore, legacyStore, nextId>>

\* main.js:332-341: after createDocument under the date string
afterCreateById(res, e, crypto, id) ==
    IF res = "ok" THEN afterRates(e, crypto, id)
    ELSE [mig |-> IdleMig, pc |-> "updateById", result |-> NoResult]

RatesCreateById(res) ==
    /\ pc = "createById"
    /\ res \in Outcomes(~HasId(ratesStore, ratesDocId), "conflict")
    /\ Answer(res)
    /\ ratesStore' = IF res = "ok"
                     THEN createDocument(ratesStore, ratesDocId, ratesRecord)
                     ELSE ratesStore
    /\ ops' = Append(ops, Op("rates", "create", ratesDocId, res))
    /\ Goto(afterCreateById(res, env, cryptoRaw, ratesDocId))
    /\ UNCHANGED <<procVars, fetchVars, localVars, ratesDocId,
                   metaStore, legacyStore, nextId>>

\* a variant that goes on whatever the update answered
afterUpdateByIdLenient(res, e, crypto, id) == afterRates(e, crypto, id)

\* main.js:342-357: after updateDocument under the date string
afterUpdateById(res, e, crypto, id) ==
    IF res = "ok" THEN afterRates(e, crypto, id)
    ELSE [mig |-> IdleMig, pc |-> "done",
          result |-> errRes("Rates upsert failed", [e |-> res], 500)]

RatesUpdateById(res) ==
    /\ pc = "updateById"
    /\ res \in Outcomes(HasId(ratesStore, ratesDocId), "not found")
    /\ Answer(res)
    /\ ratesStore' = IF res = "ok"
                     THEN updateDocument(ratesStore, ratesDocId, ratesRecord)
                     ELSE ratesStore
    /\ ops' = Append(ops, Op("rates", "update", ratesDocId, res))
    /\ Goto(afterUpdateById(res, env, cryptoRaw, ratesDocId))
    /\ UNCHANGED <<procVars, fetchVars, localVars, ratesDocId,
                   metaStore, legacyStore, nextId>>

(***************************************************************************)
(* The metadata-store upsert (main.js:361-397).                            *)
(***************************************************************************)
\* the payload of main.js:363-366
metaPayloadOf(d, crypto) ==
    [date |-> d, cryptoMeta |-> StringifyMeta(cryptoMetaOf(crypto))]

\* a variant that updates whatever the create answered
afterMetaCreateAlways(res, e, id) ==
    [mig |-> IdleMig, pc |-> "metaUpdate", result |-> NoResult]

\* main.js:369-378: after createDocument under the date string
afterMetaCreate(res, e, id) ==
    IF res = "ok" THEN afterUpserts(e, id)
    ELSE [mig |-> IdleMig, pc |-> "metaUpdate", result |-> NoResult]

MetaCreate(res) ==
    /\ pc = "metaCreate"
    /\ res \in Outcomes(~HasId(metaStore, dateStr), "conflict")
    /\ Answer(res)
    /\ metaStore' = IF res = "ok"
                    THEN createDocument(metaStore, dateStr,
                                        metaPayloadOf(dateStr, cryptoRaw))
                    ELSE metaStore
    /\ ops' = Append(ops, Op("meta", "create", dateStr, res))
    /\ Goto(afterMetaCreate(res, env, ratesDocId))
    /\ UNCHANGED <<procVars, fetchVars, localVars, ratesDocId,
                   ratesStore, legacyStore, nextId>>

\* a variant that goes on whatever the update answered
afterMetaUpdateIgnored(res, e, id) == afterUpserts(e, id)

\* main.js:378-394: after updateDocument under the date string
afterMetaUpdate(res, e, id) ==
    IF res = "ok" THEN afterUpserts(e, id)
    ELSE [mig |-> IdleMig, pc |-> "done",
          result |-> errRes("cryptoMeta upsert failed", [e |-> res], 500)]

MetaUpdate(res) ==
    /\ pc = "metaUpdate"
    /\ res \in Outcomes(HasId(metaStore, dateStr), "not found")
    /\ Answer(res)
    /\ metaStore' = IF res = "ok"
                    THEN updateDocument(metaStore, dateStr,
                                        metaPayloadOf(dateStr, cryptoRaw))
                    ELSE metaStore
    /\ ops' = Append(ops, Op("meta", "update", dateStr, res))
    /\ Goto(afterMetaUpdate(res, env, ratesDocId))
    /\ UNCHANGED <<procVars, fetchVars, localVars, ratesDocId,
                   ratesStore, legacyStore, nextId>>

(***************************************************************************)
(* The migration's steps (main.js:520-577).                                *)
(***************************************************************************)
\* a variant that reports a crashed migration as the run's failure
MigGotoReporting(m) ==
    /\ mig' = m
    /\ pc' = pcOfMig(m)
    /\ result' = IF m.st = "crashed"
                 THEN errRes("Migration failed", [e |-> "query failed"], 500)
                 ELSE IF MigOver(m) THEN okRes(ratesDocId) ELSE result

\* a step of the migration leaves it in state m
MigGoto(m) ==
    /\ mig' = m
    /\ pc' = pcOfMig(m)
    /\ result' = IF MigOver(m) THEN okRes(ratesDocId) ELSE result

Touch(m, store, op) == [m EXCEPT !.touched = @ \cup {<<store, op>>}]

\* a page of the legacy store is listed; a failure leaves the migration
\* (main.js:418-420)
MigList(res) ==
    /\ pc = "migList"
    /\ res \in {"ok", "query failed"}
    /\ Answer(res)
    /\ MigGoto(IF res = "ok"
               THEN migOnPage(Touch(mig, "legacy", "list"),
                              LegacyPage(legacyStore, mig.cursor, pageSize))
               ELSE [Touch(mig, "legacy", "list") EXCEPT
                        !.st = "crashed", !.lists = @ + 1])
    /\ UNCHANGED <<procVars, fetchVars, localVars, ratesDocId,
                   ratesStore, metaStore, legacyStore, nextId, ops>>

MigDoc == mig.page[mig.idx]

\* a variant that creates a record whatever the lookup found
migOnLookupCreate(m, found, fresh) == [m EXCEPT !.st = "create", !.rId = fresh]

\* main.js:547-557: update the first record of that date, or create one
\* under a generated identifier
migOnLookup(m, found, fresh) ==
    IF Len(found) > 0
    THEN [m EXCEPT !.st = "update", !.rId = found[1].id]
    ELSE [m EXCEPT !.st = "create", !.rId = fresh]

\* the lookup by the legacy record's date in the primary store
\* (main.js:542-549)
MigLookup(res) ==
    /\ pc = "migLookup"
    /\ res \in {"ok", "query failed"}
    /\ Answer(res)
    /\ LET found == listByDate(ratesStore, migratedDate(MigDoc))
           m == [Touch(mig, "rates", "list") EXCEPT
                    !.ops = <<Op("rates", "list", migratedDate(MigDoc), res)>>]
       IN  /\ nextId' = IF res = "ok" /\ Len(found) = 0 THEN nextId + 1 ELSE nextId
           /\ MigGoto(IF res # "ok" THEN migAdvance(m, FALSE)
                      ELSE migOnLookup(m, found, UniqueId(nextId)))
    /\ UNCHANGED <<procVars, fetchVars, localVars, ratesDocId,
                   ratesStore, metaStore, legacyStore, ops>>

\* main.js:551-556
MigUpdate(res) ==
    /\ pc = "migUpdate"
    /\ res \in Outcomes(HasId(ratesStore, mig.rId), "not found")
    /\ Answer(res)
    /\ ratesStore' = IF res = "ok"
                     THEN updateDocument(ratesStore, mig.rId, migRecordOf(MigDoc))
                     ELSE ratesStore
    /\ MigGoto(migAdvance([Touch(mig, "rates", "update") EXCEPT
                              !.ops = Append(@, Op("rates", "update", mig.rId, res))],
                          res = "ok"))
    /\ UNCHANGED <<procVars, fetchVars, localVars, ratesDocId,
                   metaStore, legacyStore, nextId, ops>>

\* a variant that also writes a metadata record for the date of the legacy
\* record
MigCreateWithMeta(res) ==
    /\ pc = "migCreate"
    /\ res \in Outcomes(~HasId(ratesStore, mig.rId), "conflict")
    /\ Answer(res)
    /\ ratesStore' = IF res = "ok"
                     THEN createDocument(ratesStore, mig.rId, migRecordOf(MigDoc))
                     ELSE ratesStore
    /\ metaStore' = IF res = "ok" /\ ~HasId(metaStore, migratedDate(MigDoc))
                    THEN createDocument(metaStore, migratedDate(MigDoc),
                                        metaPayloadOf(migratedDate(MigDoc), <<>>))
                    ELSE metaStore
    /\ MigGoto(migAdvance([Touch(mig, "rates", "create") EXCEPT
                              !.ops = Append(@, Op("rates", "create", mig.rId, res))],
                          res = "ok"))
    /\ UNCHANGED <<procVars, fetchVars, localVars, ratesDocId,
                   legacyStore, nextId, ops>>

\* main.js:558-563
MigCreate(res) ==
    /\ pc = "migCreate"
    /\ res \in Outcomes(~HasId(ratesStore, mig.rId), "conflict")
    /\ Answer(res)
    /\ ratesStore' = IF res = "ok"
                     THEN createDocument(ratesStore, mig.rId, migRecordOf(MigDoc))
                     ELSE ratesStore
    /\ MigGoto(migAdvance([Touch(mig, "rates", "create") EXCEPT
                              !.ops = Append(@, Op("rates", "create", mig.rId, res))],
                          res = "ok"))
    /\ UNCHANGED <<procVars, fetchVars, localVars, ratesDocId,
                   metaStore, legacyStore, nextId, ops>>

(***************************************************************************)
(* The global crash handlers (main.js:3-18).  The model follows a crash    *)
(* raised while no invocation is at work: the handler writes to the        *)
(* console and, when globalThis.__appwriteCtx is set, to the error log of  *)
(* the context it refers to.                                               *)
(***************************************************************************)
Handlers == {"unhandledRejection", "uncaughtException"}

\* globalThis.__appwriteCtx?.error?.(msg), ctx being 0 while it is undefined
reportOf(h, ctx) ==
    IF ctx = 0 THEN [kind |-> "console", handler |-> h]
    ELSE [kind |-> "reported", handler |-> h, ctx |-> ctx]

CrashHandler(h) ==
    /\ pc \in {"idle", "done"}
    /\ crash = NoCrash
    /\ crash' = reportOf(h, globalCtx)
    /\ UNCHANGED <<clock, runs, pc, env, globalCtx, prev, fetchVars, localVars,
                   ratesDocId, storeVars, ops, mig, result>>

(***************************************************************************)
(* The whole function, invoked up to MaxRuns times.                        *)
(***************************************************************************)
Next ==
    \/ Tick
    \/ \E h \in Handlers : CrashHandler(h)
    \/ \E e \in Envs : Start(e)
    \/ \E body \in FiatBodies : FiatOk(body)
    \/ \E e \in HttpErrors : FiatFail(e)
    \/ \E src \in CryptoSources : CryptoPage(src)
    \/ \E e \in HttpErrors : CryptoFail(e)
    \/ \E f \in {"fiat", "crypto"} : Timer(f)
    \/ AfterFetch
    \/ \E res \in {"ok", "query failed"} : RatesLookup(res)
    \/ \E res \in {"ok", "unavailable", "not found"} : RatesUpdate(res)
    \/ \E res \in {"ok", "unavailable", "conflict"} : RatesCreate(res)
    \/ \E res \in {"ok", "unavailable", "conflict"} : RatesCreateById(res)
    \/ \E res \in {"ok", "unavailable", "not found"} : RatesUpdateById(res)
    \/ \E res \in {"ok", "unavailable", "conflict"} : MetaCreate(res)
    \/ \E res \in {"ok", "unavailable", "not found"} : MetaUpdate(res)
    \/ \E res \in {"ok", "query failed"} : MigList(res)
    \/ \E res \in {"ok", "query failed"} : MigLookup(res)
    \/ \E res \in {"ok", "unavailable", "not found"} : MigUpdate(res)
    \/ \E res \in {"ok", "unavailable", "conflict"} : MigCreate(res)

Spec == Init /\ [][Next]_vars

(***************************************************************************)
(* fetchWithRetry on its own (main.js:21-51): one call with max in         *)
(* 1..MaxAttempts against an upstream whose answers, attempt by attempt,   *)
(* are fixed by the script.                                                *)
(***************************************************************************)
ScriptOk(body) == [ok |-> TRUE, body |-> body]
ScriptFail(e) == [ok |-> FALSE, err |-> e]

ProbeOutcomes ==
    {ScriptFail(e) : e \in HttpErrors} \cup {ScriptOk(b) : b \in FiatValid}

\* the answer to request number k; past its end the upstream goes on failing
ScriptAt(k) == IF k <= Len(script) THEN script[k] ELSE ScriptFail("HTTP 500")

InitRetry ==
    /\ pc = "off"
    /\ \E max \in 1..MaxAttempts :
          /\ script \in [1..max -> ProbeOutcomes]
          /\ fw = [f \in Fetchers |-> IF f = "probe" THEN fwCall(max) ELSE IdleFetch]
    /\ cr = IdleCrypto
    /\ cryptoSrc = NoSource
    /\ InitRest

\* the request in flight is answered with a body
ProbeOk ==
    /\ pc = "off"
    /\ fw["probe"].st = "inflight"
    /\ ScriptAt(fw["probe"].attempt).ok
    /\ fw' = [fw EXCEPT !["probe"] = fwOnSuccess(@, ScriptAt(@.attempt).body)]
    /\ UNCHANGED <<pc, procVars, script, cr, cryptoSrc, fiatRes, cryptoRes, localVars,
                   ratesDocId, storeVars, ops, mig, result>>

\* the request in flight fails
ProbeFail ==
    /\ pc = "off"
    /\ fw["probe"].st = "inflight"
    /\ ~ScriptAt(fw["probe"].attempt).ok
    /\ fw' = [fw EXCEPT !["probe"] = fwOnFailure(@, ScriptAt(@.attempt).err)]
    /\ UNCHANGED <<pc, procVars, script, cr, cryptoSrc, fiatRes, cryptoRes, localVars,
                   ratesDocId, storeVars, ops, mig, result>>

NextRetry ==
    \/ ProbeOk
    \/ ProbeFail
    \/ Timer("probe")

SpecRetry == InitRetry /\ [][NextRetry]_vars

(***************************************************************************)
(* fetchCryptoMarketData on its own (main.js:433-474): one call with the   *)
(* key and the page-cap override it is given, against one source.          *)
(***************************************************************************)
ApiKeys == {Undefined, Str(<<>>), Str(<<"k">>)}

InitCrypto ==
    /\ pc = "off"
    /\ script = <<>>
    /\ cryptoSrc \in ProbeSources
    /\ \E apiKey \in ApiKeys, maxPagesEnv \in MaxPagesEnvs :
          /\ cr = cryptoCall(apiKey, maxPagesEnv)
          /\ fw = [f \in Fetchers |->
                     IF f = "crypto" /\ cryptoCall(apiKey, maxPagesEnv).st = "running"
                     THEN fwCall(cryptoMax) ELSE IdleFetch]
    /\ InitRest

\* the page request in flight is answered: the loop requests the next page or
\* the call returns
ProbePage ==
    /\ pc = "off"
    /\ cr.st = "running"
    /\ cr.pageCount <= MaxPageCount
    /\ fw["crypto"].st = "inflight"
    /\ cr' = cryptoOnPage(cr, PageData(PageBody(cryptoSrc, limit, cr.skip)))
    /\ fw' = [fw EXCEPT !["crypto"] =
                IF cr'.st = "running" THEN fwCall(cryptoMax) ELSE IdleFetch]
    /\ UNCHANGED <<pc, procVars, script, cryptoSrc, fiatRes, cryptoRes, localVars,
                   ratesDocId, storeVars, ops, mig, result>>

\* the page request in flight fails: fetchWithRetry waits, or throws and the
\* call rejects
ProbePageFail(e) ==
    /\ pc = "off"
    /\ cr.st = "running"
    /\ fw["crypto"].st = "inflight"
    /\ LET s == fwOnFailure(fw["crypto"], e)
       IN  IF s.st = "threw"
           THEN /\ fw' = [fw EXCEPT !["crypto"] = IdleFetch]
                /\ cr' = [cr EXCEPT !.st = "rejected", !.reason = s.err]
           ELSE /\ fw' = [fw EXCEPT !["crypto"] = s]
                /\ cr' = cr
    /\ UNCHANGED <<pc, procVars, script, cryptoSrc, fiatRes, cryptoRes, localVars,
                   ratesDocId, storeVars, ops, mig, result>>

NextCrypto ==
    \/ ProbePage
    \/ \E e \in HttpErrors : ProbePageFail(e)
    \/ Timer("crypto")

SpecCrypto == InitCrypto /\ [][NextCrypto]_vars

(***************************************************************************)
(* migrateFromOldToNewDatabases on its own (main.js:500-581): called with  *)
(* the flag set and both legacy ids, right after the daily upsert wrote    *)
(* today's record, against legacy stores of zero to pageSize + 1 records;  *)
(* then called again by the next invocation over the same legacy store.    *)
(***************************************************************************)
\* a legacy record with a date of its own
LegacyRow(i) == [id |-> "L" \o ToString(i), date |-> "D" \o ToString(i)]
\* two legacy records of the same date
LegacyTwin ==
    <<[id |-> "t1", date |-> "D1"],
      [id |-> "t2", date |-> "D1", fiatRates |-> JsString(<<"{", "}">>)]>>
\* exactly one full page
LegacyFull == [i \in 1..pageSize |-> LegacyRow(i)]
\* one full page and a second page of one record
LegacyOver == [i \in 1..(pageSize + 1) |-> LegacyRow(i)]

MigStores == {<<>>, LegacySmall, LegacyTwin, LegacyFull, LegacyOver}

MigEnv == Set(LegacyEnv, "MIGRATE_TO_NEW_DB", <<"1">>)
MigFiat == [data |-> <<Rate("RUB", 91), Rate("USD", 1), Rate("EUR", 2)>>]

\* the state main.js:399 is reached in after a first invocation whose
\* upserts were served; a store of a page or more is migrated with at most
\* one failing operation
InitMig ==
    /\ clock = 1
    /\ runs = 1
    /\ env = MigEnv
    /\ globalCtx = 1
    /\ crash = NoCrash
    /\ prev = NoPrev
    /\ fw = [f \in Fetchers |-> IdleFetch]
    /\ cr = IdleCrypto
    /\ cryptoSrc = NoSource
    /\ script = <<>>
    /\ fiatRes = NoPromise
    /\ cryptoRes = NoPromise
    /\ fiatJson = MigFiat
    /\ cryptoRaw = SrcShort
    /\ dateStr = DateKey(1)
    /\ ratesRecord = ratesRecordOf(DateKey(1), MigFiat, SrcShort)
    /\ ratesDocId = UniqueId(1)
    /\ nextId = 2
    /\ ratesStore = createDocument(<<>>, UniqueId(1),
                                   ratesRecordOf(DateKey(1), MigFiat, SrcShort))
    /\ metaStore = createDocument(<<>>, DateKey(1),
                                  metaPayloadOf(DateKey(1), SrcShort))
    /\ ops = <<Op("rates", "list", DateKey(1), "ok"),
               Op("rates", "create", UniqueId(1), "ok"),
               Op("meta", "create", DateKey(1), "ok")>>
    /\ legacyStore \in MigStores
    /\ faults = IF Len(legacyStore) >= pageSize THEN MaxFaults - 1 ELSE 0
    /\ mig = migCall(MigEnv)
    /\ pc = pcOfMig(migCall(MigEnv))
    /\ result = NoResult

\* the next invocation: its daily upsert finds today's record and updates it
\* (main.js:298-314), then the migration is called again
MigAgain ==
    /\ pc = "done"
    /\ runs < MaxRuns
    /\ runs' = runs + 1
    /\ globalCtx' = runs + 1
    /\ crash' = NoCrash
    /\ prev' = [kind |-> "mig", st |-> mig.st, scanned |-> mig.scanned,
                movedRates |-> mig.movedRates, records |-> Len(ratesStore)]
    /\ ratesDocId' = listByDate(ratesStore, dateStr)[1].id
    /\ ratesStore' = updateDocument(ratesStore, listByDate(ratesStore, dateStr)[1].id,
                                    ratesRecord)
    /\ ops' = <<Op("rates", "list", dateStr, "ok"),
                Op("rates", "update", listByDate(ratesStore, dateStr)[1].id, "ok"),
                Op("meta", "create", dateStr, "conflict"),
                Op("meta", "update", dateStr, "ok")>>
    /\ mig' = migCall(env)
    /\ pc' = pcOfMig(migCall(env))
    /\ result' = NoResult
    /\ UNCHANGED <<clock, env, fetchVars, localVars, metaStore, legacyStore,
                   nextId, faults>>

NextMig ==
    \/ MigAgain
    \/ \E res \in {"ok", "query failed"} : MigList(res)
    \/ \E res \in {"ok", "query failed"} : MigLookup(res)
    \/ \E res \in {"ok", "unavailable", "not found"} : MigUpdate(res)
    \/ \E res \in {"ok", "unavailable", "conflict"} : MigCreate(res)

SpecMig == InitMig /\ [][NextMig]_vars

\* the store answers every request and the event loop runs every continuation
SpecMigFair == SpecMig /\ WF_vars(NextMig)

(***************************************************************************)
(* Properties of the whole function (checked under Spec).                  *)
(***************************************************************************)
\* the store operations of the daily upserts issued so far on store st
OpsOn(st) == SelectSeq(ops, LAMBDA o : o.store = st)

\* the fetched payloads lack one of USD, EUR, RUB, or hold no BTC row
C1Lacks ==
    \/ \E c \in {"USD", "EUR", "RUB"} :
          \/ "data" \notin DOMAIN fiatJson
          \/ \A i \in 1..Len(fiatJson.data) : fiatJson.data[i].code # c
    \/ \A i \in 1..Len(cryptoRaw) : cryptoRaw[i].symbol # "BTC"

\* the fetched payloads have the documented shape: every fiat entry is an
\* object and every crypto row is an object
C1Shaped ==
    /\ "data" \in DOMAIN fiatJson =>
          \A i \in 1..Len(fiatJson.data) : "isNull" \notin DOMAIN fiatJson.data[i]
    /\ \A i \in 1..Len(cryptoRaw) : "isNull" \notin DOMAIN cryptoRaw[i]

C2_AtMostOnePerDate ==
    pc \in {"idle", "done"} =>
        /\ \A i, j \in 1..Len(ratesStore) :
              ratesStore[i].date = ratesStore[j].date => i = j
        /\ \A i, j \in 1..Len(metaStore) :
              metaStore[i].date = metaStore[j].date => i = j

\* this invocation and the one before it succeeded on the same date with the
\* same upstream data
C3SameDayRerun ==
    /\ pc = "done"
    /\ Succeeded
    /\ prev.kind = "run"
    /\ prev.ok
    /\ prev.dateStr = dateStr
    /\ prev.fiat = fiatJson
    /\ prev.crypto = cryptoRaw

\* C3: after two consecutive successful invocations on the same date with the
\* same upstream data the primary store holds exactly one record for that
\* date; the second invocation found the record of the first by its lookup and
\* updated it, creating nothing.
C3_SecondRunUpdates ==
    C3SameDayRerun =>
        /\ Len(listByDate(ratesStore, dateStr)) = 1
        /\ \A k \in 1..Len(ops) : ops[k].op # "create" \/ ops[k].store # "rates"
        /\ \E k \in 1..Len(ops) : ops[k] = Op("rates", "update", prev.ratesDocId, "ok")

\* C4: after a run over a valid payload (USD, EUR, RUB and a BTC row) that
\* returned ok:true, the primary store holds exactly one record for the run's
\* date key, and its fiatRates and cryptoRates are the serialised pairs of
\* this run's data.
C4_ValidPayloadOneRecord ==
    (pc = "done" /\ Succeeded /\ ~C1Lacks) =>
        /\ Len(listByDate(ratesStore, dateStr)) = 1
        /\ listByDate(ratesStore, dateStr)[1].fiatRates
              = StringifyPairs(fiatRatesOf(fiatJson))
        /\ listByDate(ratesStore, dateStr)[1].cryptoRates
              = StringifyPairs(cryptoRatesOf(cryptoRaw))

\* operation k of the run is a create in the primary store under the date
\* string
C7CreateById(k) ==
    ops[k].store = "rates" /\ ops[k].op = "create" /\ ops[k].id = dateStr

\* C7: the primary upsert follows the stated machine: a found record is
\* updated and nothing is created; a create under the date string comes only
\* right after a failed lookup, or right after the failed create of a record
\* the lookup did not find.
C7_CreateByIdOnlyAfterLookupOrCreateFailed ==
    \A k \in 1..Len(ops) :
        C7CreateById(k) =>
            \/ k = 2 /\ ops[1].op = "list" /\ ops[1].ok # "ok"
            \/ /\ k = 3
               /\ ops[1].op = "list" /\ ops[1].ok = "ok"
               /\ ops[2].op = "create" /\ ops[2].ok # "ok"

\* C8: when the lookup by date fails, the run creates under the date string,
\* updates under the date string only if that create failed, and if the
\* update fails too it ends with 'Rates upsert failed' carrying the update's
\* error, with no further store operation and no migration.
C8_LookupFailureFallback ==
    (ops # <<>> /\ ops[1].ok # "ok") =>
        /\ ops[1] = Op("rates", "list", dateStr, ops[1].ok)
        /\ Len(OpsOn("rates")) <= 3
        /\ Len(ops) = 1 => pc = "createById" /\ ratesDocId = dateStr
        /\ Len(ops) >= 2 => ops[2] = Op("rates", "create", dateStr, ops[2].ok)
        /\ (Len(ops) >= 2 /\ ops[2].ok = "ok") =>
              /\ Len(OpsOn("rates")) = 2
              /\ ~Failed("Rates upsert failed")
        /\ (Len(ops) = 2 /\ ops[2].ok # "ok") => pc = "updateById"
        /\ Len(ops) >= 3 =>
              \/ ops[2].ok = "ok" /\ ops[3].store = "meta"
              \/ ops[2].ok # "ok" /\ ops[3] = Op("rates", "update", dateStr, ops[3].ok)
        /\ (Len(ops) >= 3 /\ ops[3].store = "rates" /\ ops[3].ok # "ok") =>
              /\ pc = "done"
              /\ result = errRes("Rates upsert failed", [e |-> ops[3].ok], 500)
              /\ Len(ops) = 3
              /\ mig = IdleMig
        /\ Failed("Rates upsert failed") =>
              Len(ops) = 3 /\ ops[3].store = "rates" /\ ops[3].ok # "ok"

\* the lookup failed, then the create and the update under the date string,
\* and the run reported it
C8_FallbackExhausted ==
    /\ Failed("Rates upsert failed")
    /\ Len(ops) = 3
    /\ ops[1].ok = "query failed"
    /\ ops[2].ok # "ok"
    /\ ops[3].ok # "ok"

\* C9: the metadata upsert does no lookup: it creates under the date string,
\* updates under the date string if and only if that create failed, and ends
\* the run with 'cryptoMeta upsert failed' if the update fails; no more than
\* two operations go to the metadata store in a run.
C9_MetaCreateThenUpdate ==
    LET m == OpsOn("meta")
    IN  /\ Len(m) <= 2
        /\ \A o \in Range(mig.ops) : o.store # "meta"
        /\ \A t \in mig.touched : t[1] # "meta"
        /\ pc \in {"metaCreate", "metaUpdate"} => Len(m) = (IF pc = "metaCreate" THEN 0 ELSE 1)
        /\ Len(m) >= 1 =>
              /\ m[1] = Op("meta", "create", dateStr, m[1].ok)
              /\ (m[1].ok # "ok") <=> (pc = "metaUpdate" \/ Len(m) = 2)
        /\ Len(m) = 2 =>
              /\ m[2] = Op("meta", "update", dateStr, m[2].ok)
              /\ (m[2].ok # "ok") <=>
                    (pc = "done" /\ mig = IdleMig /\
                     result = errRes("cryptoMeta upsert failed", [e |-> m[2].ok], 500))
        /\ Failed("cryptoMeta upsert failed") => Len(m) = 2

\* the create and the update of the metadata record both failed
C9_MetaUpsertFailed ==
    /\ Failed("cryptoMeta upsert failed")
    /\ Len(OpsOn("meta")) = 2
    /\ OpsOn("meta")[1].ok # "ok"

\* the configuration values an invocation cannot do without
C10Required ==
    {"PROJECT_ID", "APPWRITE_API_KEY", "RATES_API_KEY", "RATES1_DATABASE_ID",
     "RATES_COMBINED_COLLECTION_ID", "CRYPTOMETA_DATABASE_ID",
     "CRYPTOMETA_COLLECTION_ID"}

C10Absent == {n \in C10Required : n \notin DOMAIN env \/ env[n] = <<>>}

\* C10: an invocation with a required value absent has returned at once the
\* failure result listing exactly the absent names, with no HTTP request sent
\* and no store operation issued; an invocation with every required value
\* present is not refused, whichever of the crypto key, the page cap, the
\* migration flag and the legacy ids are absent.
C10_MissingEnvFailsFast ==
    runs > 0 =>
        /\ C10Absent # {} =>
              /\ pc = "done"
              /\ Failed("Missing required env vars")
              /\ result.status = 500
              /\ Range(result.extra.missingEnv) = C10Absent
              /\ Len(result.extra.missingEnv) = Cardinality(C10Absent)
              /\ \A f \in Fetchers : fw[f] = IdleFetch
              /\ cr = IdleCrypto
              /\ fiatRes = NoPromise /\ cryptoRes = NoPromise
              /\ ops = <<>>
              /\ mig = IdleMig
        /\ C10Absent = {} => ~Failed("Missing required env vars")

\* an invocation was refused for two values set to the empty string, after
\* an invocation that succeeded
C10_Refused ==
    /\ Failed("Missing required env vars")
    /\ result.extra.missingEnv = <<"PROJECT_ID", "RATES_API_KEY">>
    /\ prev.kind = "run"
    /\ prev.ok

(***************************************************************************)
(* Properties of fetchWithRetry (checked under SpecRetry).                 *)
(***************************************************************************)
\* the first request the scripted upstream answers with a body, 0 if none
C5FirstOk ==
    IF \E k \in 1..Len(script) : script[k].ok
    THEN CHOOSE k \in 1..Len(script) :
            script[k].ok /\ \A j \in 1..(k - 1) : ~script[j].ok
    ELSE 0

\* C5: against an upstream failing max times in a row the call sends exactly
\* max requests and throws the error of the last one; it waits 2^attempt
\* seconds after each failed attempt but the last; a success on attempt k
\* returns that body at once, with k requests sent.
C5_RetryTermination ==
    LET p == fw["probe"]
        last == IF C5FirstOk = 0 THEN p.max ELSE C5FirstOk
    IN  /\ p.sent = p.attempt
        /\ p.sent <= last
        /\ Len(p.waits) = (IF p.st = "waiting" THEN p.attempt ELSE p.attempt - 1)
        /\ \A i \in 1..Len(p.waits) : p.waits[i] = (2 ^ i) * 1000
        /\ Len(p.waits) <= p.max - 1
        /\ p.st = "threw" =>
              /\ C5FirstOk = 0
              /\ p.sent = p.max
              /\ p.err = script[p.max].err
        /\ p.st = "returned" =>
              /\ C5FirstOk # 0
              /\ p.sent = C5FirstOk
              /\ p.body = script[C5FirstOk].body
        /\ p.st \in {"inflight", "waiting"} => ENABLED NextRetry
        /\ p.st \in {"returned", "threw"} => ~ENABLED NextRetry

\* three failures in a row exhausted a call with max = 3
C5_GaveUp ==
    /\ fw["probe"].st = "threw"
    /\ fw["probe"].max = 3
    /\ fw["probe"].waits = <<2000, 4000>>

(***************************************************************************)
(* Properties of fetchCryptoMarketData (checked under SpecCrypto).         *)
(***************************************************************************)
\* the page cap as a number of pages: 10 by default, the override when it is
\* a whole number, 1 when that is below 1; 0 marks an override that is no
\* number of pages
C6CapOf(maxPagesEnv) ==
    CASE maxPagesEnv = Undefined -> 10
      [] maxPagesEnv \in {Str(<<>>), Str(<<"0">>), Str(<<"-", "3">>), Str(<<"1">>)} -> 1
      [] maxPagesEnv = Str(<<"2">>) -> 2
      [] maxPagesEnv = Str(<<" ", "3">>) -> 3
      [] OTHER -> 0

\* the rows the source holds for page k
C6PageLen(src, k) ==
    CASE src.kind = "endless" -> 100
      [] src.kind = "finite" ->
            IF Len(src.rows) - (k - 1) * 100 >= 100 THEN 100
            ELSE IF Len(src.rows) - (k - 1) * 100 <= 0 THEN 0
            ELSE Len(src.rows) - (k - 1) * 100
      [] OTHER -> 0

\* the page the fetch must stop after: the first short one, or the cap
C6LastPage(src, cap) ==
    CHOOSE k \in 1..cap :
        /\ C6PageLen(src, k) < 100 \/ k = cap
        /\ \A j \in 1..(k - 1) : C6PageLen(src, j) = 100

\* C6: with a cap that is a number of pages, the call requests pages at
\* offsets 0, 100, 200, ... in that order, stops right after the first page
\* shorter than 100 rows whatever the cap, and against full pages stops after
\* exactly cap pages (10 by default); it returns the pages concatenated.
C6_PaginationTermination ==
    LET cap == C6CapOf(cr.maxPagesEnv)
        n == Len(cr.offsets)
    IN  (cr.pageCount > 0 /\ cap > 0) =>
            /\ cr.pageCount = n
            /\ \A i \in 1..n : cr.offsets[i] = (i - 1) * 100
            /\ n <= C6LastPage(cryptoSrc, cap)
            /\ cr.st = "fulfilled" =>
                  /\ n = C6LastPage(cryptoSrc, cap)
                  /\ cryptoSrc.kind = "endless" => n = cap /\ Len(cr.out) = 100 * cap
                  /\ cryptoSrc.kind = "finite" =>
                        cr.out = SubSeq(cryptoSrc.rows, 1,
                                        Min(Len(cryptoSrc.rows), 100 * n))
            /\ (cr.st = "running" /\ fw["crypto"].st # "idle") => ENABLED NextCrypto

\* against full pages and with no override the call stopped after ten pages
C6_StoppedAtDefaultCap ==
    /\ cr.st = "fulfilled"
    /\ cryptoSrc = Endless
    /\ cr.maxPagesEnv = Undefined
    /\ cr.offsets = <<0, 100, 200, 300, 400, 500, 600, 700, 800, 900>>

(***************************************************************************)
(* Further properties of the whole function (checked under Spec).          *)
(***************************************************************************)
\* the fetchWithRetry call of fetcher f has neither returned nor thrown
C11Active(f) == fw[f].st \in {"inflight", "waiting"}

C11Settled(p) == p.status \in {"fulfilled", "rejected"}

\* while the fetches are awaited no store operation was issued and each
\* pending fetch is still at work, whatever became of the other; a run that
\* reported a failed fetch issued no store operation
C11Inv ==
    /\ pc = "fetching" =>
          /\ ops = <<>>
          /\ mig = IdleMig
          /\ result = NoResult
          /\ fiatRes.status # "none"
          /\ cryptoRes.status # "none"
          /\ fiatRes.status = "pending" <=> C11Active("fiat")
          /\ cryptoRes.status = "pending" <=> C11Active("crypto")
    /\ (Failed("Fiat fetch failed") \/ Failed("Crypto fetch failed")) =>
          /\ pc = "done"
          /\ result.status = 502
          /\ ops = <<>>
          /\ mig = IdleMig

\* both fetches start in the step that enters the wait; the wait ends only
\* when both have settled, with the fiat failure reported first; the failure
\* of one fetch leaves the other as it is
C11Step ==
    /\ (pc # "fetching" /\ pc' = "fetching") =>
          /\ fw'["fiat"].st = "inflight" /\ fw'["fiat"].sent = 1
          /\ ("CRYPTORANK_API_KEY" \in DOMAIN env' /\ env'["CRYPTORANK_API_KEY"] # <<>>)
                => (fw'["crypto"].st = "inflight" /\ fw'["crypto"].sent = 1)
    /\ (pc = "fetching" /\ pc' # "fetching") =>
          /\ C11Settled(fiatRes) /\ C11Settled(cryptoRes)
          /\ ops' = <<>>
          /\ fiatRes.status = "rejected" =>
                /\ pc' = "done"
                /\ result' = errRes("Fiat fetch failed", [reason |-> fiatRes.reason], 502)
          /\ (fiatRes.status = "fulfilled" /\ cryptoRes.status = "rejected") =>
                /\ pc' = "done"
                /\ result' = errRes("Crypto fetch failed",
                                    [reason |-> cryptoRes.reason], 502)
          /\ (fiatRes.status = "fulfilled" /\ cryptoRes.status = "fulfilled"
                /\ pc' = "done") =>
                result'.error \notin {"Fiat fetch failed", "Crypto fetch failed"}
    /\ (pc = "fetching" /\ fiatRes.status = "pending" /\ fiatRes'.status = "rejected") =>
          /\ pc' = "fetching"
          /\ cr' = cr /\ cryptoRes' = cryptoRes /\ fw'["crypto"] = fw["crypto"]
    /\ (pc = "fetching" /\ cryptoRes.status = "pending"
          /\ cryptoRes'.status = "rejected") =>
          /\ pc' = "fetching"
          /\ fiatRes' = fiatRes /\ fw'["fiat"] = fw["fiat"]

\* C11: the fiat fetch and the crypto fetch start together; no store
\* operation is issued before both have settled; a failed fetch neither
\* cancels the other nor ends the wait; when a fetch failed the run returns
\* the failure naming it (the fiat one when both failed) with no store
\* operation.
C11_FetchesSettleTogether == []C11Inv /\ [][C11Step]_vars

\* the fiat fetch has failed for good while the crypto fetch goes on with its
\* second page
C11_CryptoOutlivesFiatFailure ==
    /\ pc = "fetching"
    /\ fiatRes.status = "rejected"
    /\ cryptoRes.status = "pending"
    /\ cr.pageCount = 2


\* the messages of the failure results of main.js
C12Messages ==
    {"Missing required env vars", "Fiat fetch failed", "Crypto fetch failed",
     "Sanity check failed", "Rates upsert failed", "cryptoMeta upsert failed",
     "Fatal error"}

\* an invocation that is over holds a result with a boolean ok; one that is
\* not over holds none and has a step to take
C12Inv ==
    /\ (pc = "done") <=> Returned
    /\ (pc = "idle") <=> (runs = 0)
    /\ result.kind \in {"none", "result"}
    /\ Returned =>
          /\ result.ok \in BOOLEAN
          /\ result.ok => result.status = 200
          /\ ~result.ok => (result.error \in C12Messages /\ result.status >= 500)
    /\ pc \notin {"idle", "done"} => (runs > 0 /\ ENABLED Next)

\* the result of an invocation is produced once and stays
C12Step == (Returned /\ runs' = runs) => result' = result

\* C12: every invocation ends with exactly one result carrying a boolean
\* ok; a failure of a fetch, of the transform or of a store operation comes
\* back as a failure result with an error message and never escapes.
C12_EveryRunReturnsOneResult == []C12Inv /\ [][C12Step]_vars

\* a payload the transform throws on came back as the 'Fatal error' result
C12_TransformFailureReturned ==
    /\ Failed("Fatal error")
    /\ fiatJson \in FiatMalformed
    /\ ops = <<>>


\* the operations of this run that wrote a record of the primary store
C13Writes ==
    SelectSeq(ops, LAMBDA o : o.store = "rates" /\ o.op \in {"create", "update"}
                                /\ o.ok = "ok")

\* an operation of the primary upsert failed, so the catch block of
\* main.js:324 was entered
C13FellBack == \E i \in 1..Len(ops) : ops[i].store = "rates" /\ ops[i].ok # "ok"

\* C13: the ratesDocId of a success result is the identifier of the one
\* primary-store record this run created or updated: the record found by
\* date, a generated identifier when none was found, the date string on the
\* create-by-id and update-by-id paths.
C13_ResultNamesWrittenRecord ==
    Succeeded =>
        /\ Len(C13Writes) = 1
        /\ result.ratesDocId = C13Writes[1].id
        /\ HasId(ratesStore, result.ratesDocId)
        /\ C13FellBack => result.ratesDocId = dateStr
        /\ ~C13FellBack =>
              /\ ops[1] = Op("rates", "list", dateStr, "ok")
              /\ \E i \in 1..Len(ratesStore) :
                    /\ ratesStore[i].id = result.ratesDocId
                    /\ ratesStore[i].date \in {dateStr, ratesRecord.date}

\* a run succeeded on the update-by-id path: lookup failed, create under the
\* date string refused, update under the date string served
C13_UpdatedByDateId ==
    /\ Succeeded
    /\ Len(ops) >= 3
    /\ ops[1].ok # "ok"
    /\ ops[2] = Op("rates", "create", dateStr, "conflict")
    /\ ops[3] = Op("rates", "update", dateStr, "ok")
    /\ result.ratesDocId = dateStr


(***************************************************************************)
(* Properties of the migration (checked under SpecMig).                    *)
(***************************************************************************)
\* the migration is at work on a record
C14OnRecord == pc \in {"migLookup", "migUpdate", "migCreate"}

\* the answer to the operation the step just issued
C14Answer == mig'.ops[Len(mig'.ops)].ok

\* the record at hand is the idx-th of the page, and every record before it,
\* on this page and on the pages before, was scanned
C14Inv ==
    /\ mig.movedRates <= mig.scanned
    /\ C14OnRecord =>
          /\ mig.idx \in 1..Len(mig.page)
          /\ mig.scanned = (mig.lists - 1) * pageSize + mig.idx
    /\ mig.st = "complete" =>
          mig.scanned = IF mig.page = <<>> THEN (mig.lists - 1) * pageSize
                        ELSE (mig.lists - 1) * pageSize + Len(mig.page)

\* a step on a record never ends the migration early; the record is over
\* after a failed operation or a served write, counted in the second case
\* only, and the next record of the page is taken up
C14Step ==
    C14OnRecord =>
        /\ mig'.st # "crashed"
        /\ mig'.page = mig.page
        /\ result' # NoResult => (result'.ok /\ mig'.st = "complete")
        /\ IF pc' \in {"migUpdate", "migCreate"}
           THEN /\ pc = "migLookup"
                /\ C14Answer = "ok"
                /\ mig'.movedRates = mig.movedRates
                /\ mig'.scanned = mig.scanned
                /\ mig'.idx = mig.idx
           ELSE /\ mig'.movedRates =
                      IF C14Answer = "ok" THEN mig.movedRates + 1 ELSE mig.movedRates
                /\ C14Answer = "ok" => pc \in {"migUpdate", "migCreate"}
                /\ IF mig.idx < Len(mig.page)
                   THEN /\ pc' = "migLookup"
                        /\ mig'.idx = mig.idx + 1
                        /\ mig'.scanned = mig.scanned + 1
                   ELSE /\ pc' \in {"migList", "done"}
                        /\ mig'.scanned = mig.scanned

\* C14: a failure of the lookup, the create or the update for one legacy
\* record is caught and the migration goes on with the next record: every
\* record of every fetched page is scanned, and the count of upserted
\* records is the number of records whose upsert raised no failure.
C14_RecordFailureSkipsOnlyThatRecord == []C14Inv /\ [][C14Step]_vars

\* two pages were migrated to the end although one record's upsert failed
C14_OneFailedOfTwoPages ==
    /\ mig.st = "complete"
    /\ mig.lists = 2
    /\ mig.scanned = pageSize + 1
    /\ mig.movedRates = pageSize
    /\ runs = 1


\* the primary store holds at most one record per date
C15OnePerDate ==
    Cardinality({ratesStore[i].date : i \in 1..Len(ratesStore)}) = Len(ratesStore)

\* the run before this one migrated every legacy record
C15AfterFullRun ==
    /\ runs >= 2
    /\ prev.kind = "mig"
    /\ prev.st = "complete"
    /\ prev.scanned = Len(legacyStore)
    /\ prev.movedRates = prev.scanned

\* C15: migrating the same legacy store twice leaves no two primary-store
\* records of one date; after a run that upserted every legacy record, the
\* next run finds a record for every legacy date, updates it and issues no
\* create; so it is when two legacy records share a date.
C15_MigrationIdempotent ==
    /\ C15OnePerDate
    /\ C15AfterFullRun =>
          /\ mig.st # "create"
          /\ <<"rates", "create">> \notin mig.touched
          /\ mig.st = "update" =>
                \E i \in 1..Len(ratesStore) :
                    /\ ratesStore[i].id = mig.rId
                    /\ ratesStore[i].date = migratedDate(MigDoc)
          /\ mig.st = "complete" => Len(ratesStore) = prev.records

\* the second run over two legacy records of one date ended, having updated
\* the one record of that date twice
C15_TwinsUpdatedAgain ==
    /\ C15AfterFullRun
    /\ legacyStore = LegacyTwin
    /\ mig.st = "complete"
    /\ mig.movedRates = 2
    /\ Len(listByDate(ratesStore, "D1")) = 1


\* the legacy records, newest first
C16Desc == Reverse(legacyStore)

\* the page number k of the legacy store
C16PageNo(k) ==
    SubSeq(C16Desc, (k - 1) * pageSize + 1, Min(k * pageSize, Len(C16Desc)))

\* the pages are requested in order, each after the last record of the one
\* before; the k-th record scanned is the k-th newest one; the loop ends at
\* the first empty or short page, with every record scanned
C16Inv ==
    /\ mig.lists <= (Len(legacyStore) \div pageSize) + 1
    /\ (mig.st = "listing" /\ mig.lists = 0) => mig.cursor = ""
    /\ (mig.st = "listing" /\ mig.lists > 0) =>
          /\ Len(mig.page) = pageSize
          /\ mig.cursor = C16Desc[mig.lists * pageSize].id
    /\ (mig.st \in {"lookup", "update", "create", "listing", "complete"}
          /\ mig.lists > 0) =>
          /\ mig.page = C16PageNo(mig.lists)
          /\ Len(mig.page) <= pageSize
    /\ C14OnRecord => MigDoc = C16Desc[mig.scanned]
    /\ mig.st = "complete" =>
          /\ Len(mig.page) < pageSize
          /\ mig.scanned = Len(legacyStore)
          /\ mig.lists = (Len(legacyStore) \div pageSize) + 1

\* C16: the migration's pagination over a finite legacy store terminates
\* and visits every legacy record exactly once: pages of up to pageSize
\* records, newest first, each requested after the last identifier of the
\* page before, until the first empty or short page.
C16_MigrationPaginationCovers == []C16Inv /\ <>[](pc = "done" /\ MigOver(mig))

\* a store of exactly one full page: the second request came back empty
C16_EmptyPageAfterFullPage ==
    /\ mig.st = "complete"
    /\ legacyStore = LegacyFull
    /\ mig.lists = 2
    /\ mig.page = <<>>
    /\ mig.cursor = "L1"
    /\ mig.scanned = pageSize


\* the steps of the daily upsert that issue a store operation
C17Busy == {"lookup", "update", "create", "createById", "updateById"}

\* where the daily upsert of main.js:295-359 stands after the answers s to
\* the operations it issued for one date
RECURSIVE C17DailyPc(_)
C17DailyPc(s) ==
    IF s = <<>> THEN "lookup"
    ELSE LET before == C17DailyPc(SubSeq(s, 1, Len(s) - 1))
             o == s[Len(s)]
         IN  CASE before = "lookup" -> pcAfterLookup(o.ok, <<>>)
               [] before \in {"update", "create"} ->
                     afterWrite(o.ok, MigEnv, <<>>, o.id).pc
               [] before = "createById" ->
                     afterCreateById(o.ok, MigEnv, <<>>, o.id).pc
               [] before = "updateById" ->
                     afterUpdateById(o.ok, MigEnv, <<>>, o.id).pc
               [] OTHER -> before

\* C17: for every outcome of the store's lookup, create and update the
\* migration issues for a legacy record the operations the daily upsert
\* would issue for that date: it is done with a record only where the daily
\* upsert would be done, create-by-id and update-by-id fallback included.
C17_MigrationUpsertsLikeDaily ==
    /\ mig.st \in {"update", "create"} =>
          C17DailyPc(mig.ops) \in {"update", "create"}
    /\ (mig.st \in {"lookup", "listing", "complete"} /\ mig.ops # <<>>) =>
          C17DailyPc(mig.ops) \notin C17Busy


(***************************************************************************)
(* Further properties of the whole function (checked under Spec).          *)
(***************************************************************************)
\* the migration flag is "1" and both legacy ids are configured
C18Configured ==
    /\ EnvGet(env, "MIGRATE_TO_NEW_DB") = Str(<<"1">>)
    /\ ~Falsy(env, "DATABASE_ID")
    /\ ~Falsy(env, "COLLECTION_ID")

\* C18: the legacy store is read only when the migration flag equals "1"
\* and both legacy ids are configured; otherwise no legacy-store operation
\* is issued and the run returns what it returns without migration.
C18_MigrationOnlyWhenConfigured ==
    /\ (pc = "migList" \/ mig.st \notin {"off", "skipped"}
          \/ mig.lists > 0 \/ mig.touched # {}) => C18Configured
    /\ mig.st = "skipped" => EnvGet(env, "MIGRATE_TO_NEW_DB") = Str(<<"1">>)
    /\ Succeeded =>
          /\ result = okRes(ratesDocId)
          /\ C18Configured => mig.lists > 0
          /\ ~C18Configured =>
                /\ mig.touched = {}
                /\ mig.ops = <<>>
                /\ mig.scanned = 0
    /\ legacyStore = LegacySmall

\* a run with the flag set but no legacy database id succeeded without
\* touching the legacy store
C18_SkippedWithoutLegacyId ==
    /\ Succeeded
    /\ EnvGet(env, "MIGRATE_TO_NEW_DB") = Str(<<"1">>)
    /\ Falsy(env, "DATABASE_ID")
    /\ mig.st = "skipped"
    /\ mig.touched = {}

(***************************************************************************)
(* The migration of part_000 (lines 227-351), which also moves the         *)
(* metadata blob embedded in a legacy record to the metadata store and     *)
(* then strips it from the legacy record.  It is called without a          *)
(* try/catch of its own (part_000:148-165), right after the daily upserts  *)
(* wrote today's records.                                                  *)
(***************************************************************************)
JsNull == [type |-> "null"]

\* a blob of more than two characters, one given as an object, one of two
\* characters, and a record without a blob
P0Blob == [id |-> "b1", date |-> "B1", cryptoMeta |-> JsString(<<"{", "x", "}">>)]
P0Object == [id |-> "b2", date |-> "B2", cryptoMeta |-> JsArray(<<<<"BTC", 5>>>>)]
P0Short == [id |-> "b3", date |-> "B3", cryptoMeta |-> JsString(<<"{", "}">>)]
\* a record of today's date with a blob
P0Today == [id |-> "b4", date |-> DateKey(1), cryptoMeta |-> JsString(<<"{", "y", "}">>)]
P0Stores ==
    {<<P0Today>>, <<P0Short, P0Blob>>, <<P0Object, LegacyBare>>,
     <<P0Blob, P0Object>>}

\* doc.cryptoMeta && String(doc.cryptoMeta).length > 2 (part_000:304); the
\* tokens of a string blob are single characters, String(object) is
\* "[object Object]"
P0HasBlob(doc) ==
    /\ "cryptoMeta" \in DOMAIN doc
    /\ doc.cryptoMeta.type # "null"
    /\ doc.cryptoMeta.type = "string" => Len(doc.cryptoMeta.v) > 2

\* the payload of upsertCryptoMetaDocument (part_000:213-217) for the blob
P0Payload(doc) ==
    [date |-> migratedDate(doc), cryptoMeta |-> normalize(doc, "cryptoMeta", <<>>)]

P0Idle ==
    [st |-> "off", cursor |-> "", page |-> <<>>, idx |-> 0, scanned |-> 0,
     movedRates |-> 0, movedMeta |-> 0, strippedOld |-> 0, rId |-> "",
     lists |-> 0, ops |-> <<>>, touched |-> {}]

\* part_000:236-251
P0Call(e) ==
    IF Falsy(e, "DATABASE_ID") \/ Falsy(e, "COLLECTION_ID")
    THEN [P0Idle EXCEPT !.st = "skipped"]
    ELSE [P0Idle EXCEPT !.st = "listing"]

\* part_000:345-346: the next record, the next page, or the end
P0Advance(m) == migAdvance(m, FALSE)

\* part_000:294-304: the rates upsert of the record is over
P0AfterRates(m, ok) ==
    LET n == [m EXCEPT !.movedRates = IF ok THEN @ + 1 ELSE @]
    IN  IF P0HasBlob(m.page[m.idx]) THEN [n EXCEPT !.st = "metaCreate"]
        ELSE P0Advance(n)

\* part_000:164-169: { ok: true }, or { ok: false, error } from the catch
P0Result(m) ==
    IF m.st = "crashed" THEN [kind |-> "result", ok |-> FALSE, error |-> "query failed"]
    ELSE [kind |-> "result", ok |-> TRUE]

P0Goto(m) ==
    /\ mig' = m
    /\ pc' = IF MigOver(m) THEN "done" ELSE "p0"
    /\ result' = IF MigOver(m) THEN P0Result(m) ELSE result

P0At(st) == pc = "p0" /\ mig.st = st

P0Frame ==
    UNCHANGED <<procVars, fetchVars, localVars, ratesDocId, ops>>

InitP0 ==
    /\ clock = 1
    /\ runs = 1
    /\ env = MigEnv
    /\ globalCtx = 1
    /\ crash = NoCrash
    /\ prev = NoPrev
    /\ fw = [f \in Fetchers |-> IdleFetch]
    /\ cr = IdleCrypto
    /\ cryptoSrc = NoSource
    /\ script = <<>>
    /\ fiatRes = NoPromise
    /\ cryptoRes = NoPromise
    /\ fiatJson = MigFiat
    /\ cryptoRaw = SrcShort
    /\ dateStr = DateKey(1)
    /\ ratesRecord = ratesRecordOf(DateKey(1), MigFiat, SrcShort)
    /\ ratesDocId = UniqueId(1)
    /\ nextId = 2
    /\ ratesStore = createDocument(<<>>, UniqueId(1),
                                   ratesRecordOf(DateKey(1), MigFiat, SrcShort))
    /\ metaStore = createDocument(<<>>, DateKey(1),
                                  metaPayloadOf(DateKey(1), SrcShort))
    /\ ops = <<Op("rates", "list", DateKey(1), "ok"),
               Op("rates", "create", UniqueId(1), "ok"),
               Op("meta", "create", DateKey(1), "ok")>>
    /\ legacyStore \in P0Stores
    /\ faults = 0
    /\ mig = P0Call(MigEnv)
    /\ pc = "p0"
    /\ result = NoResult

\* part_000:250-253
P0List(res) ==
    /\ P0At("listing")
    /\ res \in {"ok", "query failed"}
    /\ Answer(res)
    /\ P0Goto(IF res = "ok"
              THEN migOnPage(Touch(mig, "legacy", "list"),
                             LegacyPage(legacyStore, mig.cursor, pageSize))
              ELSE [Touch(mig, "legacy", "list") EXCEPT
                       !.st = "crashed", !.lists = @ + 1])
    /\ P0Frame
    /\ UNCHANGED <<ratesStore, metaStore, legacyStore, nextId>>

\* part_000:270-278
P0Lookup(res) ==
    /\ P0At("lookup")
    /\ res \in {"ok", "query failed"}
    /\ Answer(res)
    /\ LET found == listByDate(ratesStore, migratedDate(MigDoc))
           m == [Touch(mig, "rates", "list") EXCEPT
                    !.ops = <<Op("rates", "list", migratedDate(MigDoc), res)>>]
       IN  /\ nextId' = IF res = "ok" /\ Len(found) = 0 THEN nextId + 1 ELSE nextId
           /\ P0Goto(IF res # "ok" THEN P0AfterRates(m, FALSE)
                     ELSE migOnLookup(m, found, UniqueId(nextId)))
    /\ P0Frame
    /\ UNCHANGED <<ratesStore, metaStore, legacyStore>>

\* part_000:279-285
P0Update(res) ==
    /\ P0At("update")
    /\ res \in Outcomes(HasId(ratesStore, mig.rId), "not found")
    /\ Answer(res)
    /\ ratesStore' = IF res = "ok"
                     THEN updateDocument(ratesStore, mig.rId, migRecordOf(MigDoc))
                     ELSE ratesStore
    /\ P0Goto(P0AfterRates([Touch(mig, "rates", "update") EXCEPT
                               !.ops = Append(@, Op("rates", "update", mig.rId, res))],
                           res = "ok"))
    /\ P0Frame
    /\ UNCHANGED <<metaStore, legacyStore, nextId>>

\* part_000:286-293
P0Create(res) ==
    /\ P0At("create")
    /\ res \in Outcomes(~HasId(ratesStore, mig.rId), "conflict")
    /\ Answer(res)
    /\ ratesStore' = IF res = "ok"
                     THEN createDocument(ratesStore, mig.rId, migRecordOf(MigDoc))
                     ELSE ratesStore
    /\ P0Goto(P0AfterRates([Touch(mig, "rates", "create") EXCEPT
                               !.ops = Append(@, Op("rates", "create", mig.rId, res))],
                           res = "ok"))
    /\ P0Frame
    /\ UNCHANGED <<metaStore, legacyStore, nextId>>

\* createDocument of upsertCryptoMetaDocument (part_000:218-220, 311-318)
P0MetaCreate(res) ==
    /\ P0At("metaCreate")
    /\ res \in Outcomes(~HasId(metaStore, migratedDate(MigDoc)), "conflict")
    /\ Answer(res)
    /\ metaStore' = IF res = "ok"
                    THEN createDocument(metaStore, migratedDate(MigDoc),
                                        P0Payload(MigDoc))
                    ELSE metaStore
    /\ P0Goto(IF res = "ok"
              THEN [Touch(mig, "meta", "create") EXCEPT
                       !.st = "stripNull", !.movedMeta = @ + 1]
              ELSE [Touch(mig, "meta", "create") EXCEPT !.st = "metaUpdate"])
    /\ P0Frame
    /\ UNCHANGED <<ratesStore, legacyStore, nextId>>

\* updateDocument of upsertCryptoMetaDocument; its failure is caught by the
\* caller (part_000:221-224, 319-325)
P0MetaUpdate(res) ==
    /\ P0At("metaUpdate")
    /\ res \in Outcomes(HasId(metaStore, migratedDate(MigDoc)), "not found")
    /\ Answer(res)
    /\ metaStore' = IF res = "ok"
                    THEN updateDocument(metaStore, migratedDate(MigDoc),
                                        P0Payload(MigDoc))
                    ELSE metaStore
    /\ P0Goto([Touch(mig, "meta", "update") EXCEPT
                  !.st = "stripNull",
                  !.movedMeta = IF res = "ok" THEN @ + 1 ELSE @])
    /\ P0Frame
    /\ UNCHANGED <<ratesStore, legacyStore, nextId>>

\* the legacy store may refuse a value its schema does not allow
StripAnswers == {"ok", "unavailable", "invalid"}

\* part_000:327-331: cryptoMeta: null
P0StripNull(res) ==
    /\ P0At("stripNull")
    /\ res \in StripAnswers
    /\ Answer(res)
    /\ legacyStore' = IF res = "ok"
                      THEN updateDocument(legacyStore, MigDoc.id,
                                          [cryptoMeta |-> JsNull])
                      ELSE legacyStore
    /\ P0Goto(IF res = "ok"
              THEN P0Advance([Touch(mig, "legacy", "update") EXCEPT
                                 !.strippedOld = @ + 1])
              ELSE [Touch(mig, "legacy", "update") EXCEPT !.st = "stripEmpty"])
    /\ P0Frame
    /\ UNCHANGED <<ratesStore, metaStore, nextId>>

\* part_000:332-342: cryptoMeta: "", a failure being ignored
P0StripEmpty(res) ==
    /\ P0At("stripEmpty")
    /\ res \in StripAnswers
    /\ Answer(res)
    /\ legacyStore' = IF res = "ok"
                      THEN updateDocument(legacyStore, MigDoc.id,
                                          [cryptoMeta |-> JsString(<<>>)])
                      ELSE legacyStore
    /\ P0Goto(P0Advance([Touch(mig, "legacy", "update") EXCEPT
                            !.strippedOld = IF res = "ok" THEN @ + 1 ELSE @]))
    /\ P0Frame
    /\ UNCHANGED <<ratesStore, metaStore, nextId>>

NextP0 ==
    \/ \E res \in {"ok", "query failed"} : P0List(res)
    \/ \E res \in {"ok", "query failed"} : P0Lookup(res)
    \/ \E res \in {"ok", "unavailable", "not found"} : P0Update(res)
    \/ \E res \in {"ok", "unavailable", "conflict"} : P0Create(res)
    \/ \E res \in {"ok", "unavailable", "conflict"} : P0MetaCreate(res)
    \/ \E res \in {"ok", "unavailable", "not found"} : P0MetaUpdate(res)
    \/ \E res \in StripAnswers : P0StripNull(res)
    \/ \E res \in StripAnswers : P0StripEmpty(res)

SpecP0 == InitP0 /\ [][NextP0]_vars

\* the blob of the legacy record was stripped: set to null or to ""
C19Stripped(doc) ==
    /\ "cryptoMeta" \in DOMAIN doc
    /\ \/ doc.cryptoMeta = JsNull
       \/ doc.cryptoMeta = JsString(<<>>)

\* C19: a legacy record's metadata blob is stripped only after it was
\* written to the new metadata store: every legacy record whose blob was
\* stripped has a metadata record for its date.
C19_StrippedOnlyAfterMetaWritten ==
    \A i \in 1..Len(legacyStore) :
        C19Stripped(legacyStore[i]) =>
            \E j \in 1..Len(metaStore) :
                metaStore[j].date = migratedDate(legacyStore[i])

(***************************************************************************)
(* Process state across invocations (checked under Spec).                  *)
(***************************************************************************)
\* C20: no shared mutable state crosses invocations: what an invocation
\* wrote in process memory is gone when it has returned, and the global
\* crash handlers report to the context of an invocation at work only.
C20_NothingCrossesInvocations ==
    /\ pc \in {"idle", "done"} => globalCtx = 0
    /\ crash.kind = "reported" =>
          /\ pc \notin {"idle", "done"}
          /\ crash.ctx = runs

(***************************************************************************)
(* The order of the store operations of a run (checked under Spec).  An    *)
(* action of the model is the continuation that runs when an awaited       *)
(* operation is answered, up to the next await: the operation awaited in a *)
(* state is the one in flight.                                             *)
(***************************************************************************)
\* the steps of the daily upserts that await a store operation
C21DailyAwait ==
    {"lookup", "update", "create", "createById", "updateById",
     "metaCreate", "metaUpdate"}

C21MigAwait == {"listing", "lookup", "update", "create"}

\* the store operations in flight
C21InFlight ==
    (IF pc \in C21DailyAwait THEN {<<"daily", pc>>} ELSE {})
    \cup (IF mig.st \in C21MigAwait THEN {<<"migration", mig.st>>} ELSE {})

C21Inv ==
    /\ Cardinality(C21InFlight) <= 1
    /\ pc \in {"idle", "fetching", "done"} => C21InFlight = {}
    /\ pc \in C21DailyAwait => mig = IdleMig
    /\ mig.st \in C21MigAwait => pc = pcOfMig(mig)

\* a step answers at most one operation, one that was in flight, and logs it
C21Step ==
    /\ (ops' # ops /\ runs' = runs) =>
          /\ pc \in C21DailyAwait
          /\ Len(ops') = Len(ops) + 1
          /\ SubSeq(ops', 1, Len(ops)) = ops
          /\ mig' \in {IdleMig, migCall(env)}
    /\ (mig' # mig /\ mig # IdleMig /\ runs' = runs) =>
          /\ mig.st \in C21MigAwait
          /\ ops' = ops
          /\ mig'.lists + Len(mig'.ops) <= mig.lists + Len(mig.ops) + 1
    /\ (C21InFlight # {} /\ C21InFlight' # C21InFlight) =>
          (ops' # ops \/ mig'.lists # mig.lists \/ mig'.ops # mig.ops)

\* C21: within one run the store operations are issued strictly one after
\* another: never two lookups, creates or updates in flight at once, each
\* started only when the one before was answered or failed.
C21_StoreOperationsSequential == []C21Inv /\ [][C21Step]_vars

\* the migration awaits an update while the daily upserts, metadata
\* included, are all answered
C21_MigrationAwaitsAfterDaily ==
    /\ pc = "migUpdate"
    /\ C21InFlight = {<<"migration", "update">>}
    /\ \E i \in 1..Len(ops) : ops[i].store = "meta" /\ ops[i].ok = "ok"

(***************************************************************************)
(* Runs without a crypto API key (checked under Spec).                     *)
(***************************************************************************)
\* the run at hand has its required configuration but no crypto API key
C22NoKey ==
    /\ runs > 0
    /\ missingEnv(env) = <<>>
    /\ Falsy(env, "CRYPTORANK_API_KEY")

p0FiatMax == 2
p0CryptoMax == 3

\* part_000:168-169: String(err) of the error caught
P0Caught(message) == [kind |-> "result", ok |-> FALSE, error |-> message]

\* part_000:166-167
P0Ok == [kind |-> "result", ok |-> TRUE]

\* the configurations a run of part_000 may find: the migration enabled,
\* disabled, the crypto key absent, an id of a new store absent
P0Envs ==
    {MigEnv, BaseEnv, Unset(BaseEnv, {"CRYPTORANK_API_KEY"}),
     Unset(MigEnv, {"CRYPTORANK_API_KEY"}),
     Unset(BaseEnv, {"RATES1_DATABASE_ID"}),
     Set(BaseEnv, "CRYPTOMETA_COLLECTION_ID", <<>>)}

\* fetchCryptoMarketData of part_000 up to its first await (lines 176-195)
p0CryptoCall(apiKey) ==
    IF ~apiKey.set \/ apiKey.v = <<>>
    THEN [IdleCrypto EXCEPT !.st = "fulfilled"]
    ELSE [IdleCrypto EXCEPT !.st = "running", !.pageCount = 1, !.offsets = <<0>>]

\* part_000:196-199: the loop has no page cap
p0CryptoOnPage(c, data) ==
    IF Len(data) < limit
    THEN [c EXCEPT !.st = "fulfilled", !.out = @ \o data]
    ELSE [c EXCEPT !.out = @ \o data, !.skip = @ + limit,
                   !.pageCount = @ + 1, !.offsets = Append(@, c.skip + limit)]

\* part_000:85-98: the error thrown for an absent id of a new store
p0MissingIds(e) ==
    IF Falsy(e, "RATES1_DATABASE_ID") \/ Falsy(e, "RATES_COMBINED_COLLECTION_ID")
    THEN "Error: Missing RATES1_DATABASE_ID or RATES_COMBINED_COLLECTION_ID"
    ELSE IF Falsy(e, "CRYPTOMETA_DATABASE_ID") \/ Falsy(e, "CRYPTOMETA_COLLECTION_ID")
    THEN "Error: Missing CRYPTOMETA_DATABASE_ID or CRYPTOMETA_COLLECTION_ID"
    ELSE ""

\* part_000:41-98: what the transform, the sanity check and the id checks
\* throw for the fetched values, "" when they let the run go on
p0AfterTransform(fiat, crypto, e) ==
    IF transformThrows(fiat, crypto) THEN "TypeError"
    ELSE IF ~SanityOk(fiatRatesOf(fiat), cryptoRatesOf(crypto))
    THEN "Error: Sanity check failed, aborting save"
    ELSE p0MissingIds(e)

\* part_000:148-167: the migration when it is enabled, then { ok: true }
p0AfterMeta(e) ==
    IF EnvGet(e, "MIGRATE_TO_NEW_DB") = Str(<<"1">>)
    THEN LET m == P0Call(e)
         IN  [mig |-> m, pc |-> IF MigOver(m) THEN "done" ELSE "p0",
              result |-> IF MigOver(m) THEN P0Result(m) ELSE NoResult]
    ELSE [mig |-> P0Idle, pc |-> "done", result |-> P0Ok]

\* part_000:133-146: the metadata upsert when rows were fetched
p0AfterRates(e, crypto) ==
    IF Len(crypto) > 0
    THEN [mig |-> P0Idle, pc |-> "p0MetaCreate", result |-> NoResult]
    ELSE p0AfterMeta(e)

\* the error escapes to the catch of part_000:168
p0Throw(message) == [mig |-> P0Idle, pc |-> "done", result |-> P0Caught(message)]

\* a rates store that holds today's record from an earlier run, or nothing
P0RatesStores ==
    {<<>>, createDocument(<<>>, "u0", ratesRecordOf(DateKey(1), MigFiat, SrcShort))}

InitP0Run ==
    /\ pc = "idle"
    /\ fw = [f \in Fetchers |-> IdleFetch]
    /\ cr = IdleCrypto
    /\ cryptoSrc = NoSource
    /\ script = <<>>
    /\ clock = 1
    /\ runs = 0
    /\ env = BaseEnv
    /\ globalCtx = 0
    /\ crash = NoCrash
    /\ fiatRes = NoPromise
    /\ cryptoRes = NoPromise
    /\ fiatJson = NoBody
    /\ cryptoRaw = <<>>
    /\ dateStr = ""
    /\ ratesRecord = NoRecord
    /\ ratesDocId = ""
    /\ ratesStore \in P0RatesStores
    /\ metaStore = IF ratesStore = <<>> THEN <<>>
                   ELSE createDocument(<<>>, DateKey(1),
                                       metaPayloadOf(DateKey(1), SrcShort))
    /\ legacyStore \in P0Stores
    /\ nextId = 1
    /\ faults = 0
    /\ ops = <<>>
    /\ mig = P0Idle
    /\ result = NoResult
    /\ prev = NoPrev

\* part_000:18-39: entry up to the await of Promise.all
P0Entry(e) ==
    /\ pc = "idle"
    /\ runs' = runs + 1
    /\ env' = e
    /\ pc' = "p0Fetching"
    /\ fiatRes' = Pending
    /\ LET c == p0CryptoCall(EnvGet(e, "CRYPTORANK_API_KEY"))
       IN  /\ cr' = IF c.st = "running" THEN c ELSE IdleCrypto
           /\ cryptoRes' = IF c.st = "running" THEN Pending ELSE Fulfilled(c.out)
           /\ fw' = [f \in Fetchers |->
                        CASE f = "fiat" -> fwCall(p0FiatMax)
                          [] f = "crypto" /\ c.st = "running" -> fwCall(p0CryptoMax)
                          [] OTHER -> IdleFetch]
    /\ UNCHANGED <<clock, globalCtx, crash, prev, cryptoSrc, script, localVars,
                   ratesDocId, storeVars, ops, mig, result>>

\* a fetch threw: Promise.all rejects at once and the catch returns; what
\* the other fetch still does has no effect on the stores or the result
P0Reject(message) ==
    /\ pc' = "done"
    /\ result' = P0Caught(message)
    /\ fw' = [f \in Fetchers |-> IdleFetch]
    /\ cr' = IdleCrypto
    /\ cryptoSrc' = NoSource
    /\ fiatRes' = NoPromise
    /\ cryptoRes' = NoPromise

P0FiatOk(body) ==
    /\ pc = "p0Fetching"
    /\ fw["fiat"].st = "inflight"
    /\ fiatRes' = Fulfilled(fwOnSuccess(fw["fiat"], body).body)
    /\ fw' = [fw EXCEPT !["fiat"] = IdleFetch]
    /\ UNCHANGED <<pc, procVars, script, cr, cryptoSrc, cryptoRes, localVars,
                   ratesDocId, storeVars, ops, mig, result>>

P0FiatFail(e) ==
    /\ pc = "p0Fetching"
    /\ fw["fiat"].st = "inflight"
    /\ LET s == fwOnFailure(fw["fiat"], e)
       IN  IF s.st = "threw"
           THEN P0Reject("Error: " \o s.err)
           ELSE /\ fw' = [fw EXCEPT !["fiat"] = s]
                /\ UNCHANGED <<pc, result, cr, cryptoSrc, fiatRes, cryptoRes>>
    /\ UNCHANGED <<procVars, script, localVars, ratesDocId, storeVars, ops, mig>>

P0CryptoPage(src) ==
    /\ pc = "p0Fetching"
    /\ fw["crypto"].st = "inflight"
    /\ cryptoSrc \in {NoSource, src}
    /\ LET c == p0CryptoOnPage(cr, PageData(PageBody(src, limit, cr.skip)))
       IN  IF c.st = "running"
           THEN /\ cr' = c
                /\ cryptoSrc' = src
                /\ fw' = [fw EXCEPT !["crypto"] = fwCall(p0CryptoMax)]
                /\ cryptoRes' = cryptoRes
           ELSE /\ cr' = IdleCrypto
                /\ cryptoSrc' = NoSource
                /\ fw' = [fw EXCEPT !["crypto"] = IdleFetch]
                /\ cryptoRes' = Fulfilled(c.out)
    /\ UNCHANGED <<pc, procVars, script, fiatRes, localVars, ratesDocId, storeVars,
                   ops, mig, result>>

P0CryptoFail(e) ==
    /\ pc = "p0Fetching"
    /\ fw["crypto"].st = "inflight"
    /\ LET s == fwOnFailure(fw["crypto"], e)
       IN  IF s.st = "threw"
           THEN P0Reject("Error: " \o s.err)
           ELSE /\ fw' = [fw EXCEPT !["crypto"] = s]
                /\ UNCHANGED <<pc, result, cr, cryptoSrc, fiatRes, cryptoRes>>
    /\ UNCHANGED <<procVars, script, localVars, ratesDocId, storeVars, ops, mig>>

P0Timer(f) ==
    /\ pc = "p0Fetching"
    /\ fw[f].st = "waiting"
    /\ fw' = [fw EXCEPT ![f] = fwOnTimer(@)]
    /\ UNCHANGED <<pc, procVars, script, cr, cryptoSrc, fiatRes, cryptoRes, localVars,
                   ratesDocId, storeVars, ops, mig, result>>

P0RunGoto(n) ==
    /\ pc' = n.pc
    /\ mig' = n.mig
    /\ result' = n.result

\* part_000:41-98: Promise.all resolved with both values
P0AfterFetch ==
    /\ pc = "p0Fetching"
    /\ fiatRes.status = "fulfilled"
    /\ cryptoRes.status = "fulfilled"
    /\ fiatJson' = fiatRes.value
    /\ cryptoRaw' = cryptoRes.value
    /\ LET thrown == p0AfterTransform(fiatRes.value, cryptoRes.value, env)
       IN  IF thrown # ""
           THEN /\ P0RunGoto(p0Throw(thrown))
                /\ UNCHANGED <<dateStr, ratesRecord>>
           ELSE /\ dateStr' = DateKey(clock)
                /\ ratesRecord' = ratesRecordOf(DateKey(clock), fiatRes.value,
                                                cryptoRes.value)
                /\ P0RunGoto([mig |-> P0Idle, pc |-> "p0Lookup", result |-> NoResult])
    /\ fiatRes' = NoPromise
    /\ cryptoRes' = NoPromise
    /\ UNCHANGED <<procVars, fw, cr, cryptoSrc, script, ratesDocId, storeVars, ops>>

\* part_000:101-108
P0RatesLookup(res) ==
    /\ pc = "p0Lookup"
    /\ res \in {"ok", "query failed"}
    /\ Answer(res)
    /\ LET found == listByDate(ratesStore, dateStr)
       IN  /\ ratesDocId' = IF res # "ok" THEN ratesDocId
                            ELSE IF Len(found) > 0 THEN found[1].id
                            ELSE UniqueId(nextId)
           /\ nextId' = IF res = "ok" /\ Len(found) = 0 THEN nextId + 1 ELSE nextId
           /\ P0RunGoto(IF res # "ok" THEN p0Throw(res)
                        ELSE [mig |-> P0Idle, result |-> NoResult,
                              pc |-> IF Len(found) > 0 THEN "p0Update"
                                     ELSE "p0Create"])
    /\ ops' = Append(ops, Op("rates", "list", dateStr, res))
    /\ UNCHANGED <<procVars, fetchVars, localVars, ratesStore, metaStore,
                   legacyStore>>

\* part_000:115-122
P0RatesUpdate(res) ==
    /\ pc = "p0Update"
    /\ res \in Outcomes(HasId(ratesStore, ratesDocId), "not found")
    /\ Answer(res)
    /\ ratesStore' = IF res = "ok"
                     THEN updateDocument(ratesStore, ratesDocId, ratesRecord)
                     ELSE ratesStore
    /\ ops' = Append(ops, Op("rates", "update", ratesDocId, res))
    /\ P0RunGoto(IF res = "ok" THEN p0AfterRates(env, cryptoRaw) ELSE p0Throw(res))
    /\ UNCHANGED <<procVars, fetchVars, localVars, ratesDocId, metaStore,
                   legacyStore, nextId>>

\* part_000:123-131
P0RatesCreate(res) ==
    /\ pc = "p0Create"
    /\ res \in Outcomes(~HasId(ratesStore, ratesDocId), "conflict")
    /\ Answer(res)
    /\ ratesStore' = IF res = "ok"
                     THEN createDocument(ratesStore, ratesDocId, ratesRecord)
                     ELSE ratesStore
    /\ ops' = Append(ops, Op("rates", "create", ratesDocId, res))
    /\ P0RunGoto(IF res = "ok" THEN p0AfterRates(env, cryptoRaw) ELSE p0Throw(res))
    /\ UNCHANGED <<procVars, fetchVars, localVars, ratesDocId, metaStore,
                   legacyStore, nextId>>

\* createDocument of upsertCryptoMetaDocument for today (part_000:218-220)
P0DailyMetaCreate(res) ==
    /\ pc = "p0MetaCreate"
    /\ res \in Outcomes(~HasId(metaStore, dateStr), "conflict")
    /\ Answer(res)
    /\ metaStore' = IF res = "ok"
                    THEN createDocument(metaStore, dateStr,
                                        metaPayloadOf(dateStr, cryptoRaw))
                    ELSE metaStore
    /\ ops' = Append(ops, Op("meta", "create", dateStr, res))
    /\ P0RunGoto(IF res = "ok" THEN p0AfterMeta(env)
                 ELSE [mig |-> P0Idle, pc |-> "p0MetaUpdate", result |-> NoResult])
    /\ UNCHANGED <<procVars, fetchVars, localVars, ratesDocId, ratesStore,
                   legacyStore, nextId>>

\* updateDocument of upsertCryptoMetaDocument for today (part_000:221-224);
\* its failure reaches the catch of the run
P0DailyMetaUpdate(res) ==
    /\ pc = "p0MetaUpdate"
    /\ res \in Outcomes(HasId(metaStore, dateStr), "not found")
    /\ Answer(res)
    /\ metaStore' = IF res = "ok"
                    THEN updateDocument(metaStore, dateStr,
                                        metaPayloadOf(dateStr, cryptoRaw))
                    ELSE metaStore
    /\ ops' = Append(ops, Op("meta", "update", dateStr, res))
    /\ P0RunGoto(IF res = "ok" THEN p0AfterMeta(env) ELSE p0Throw(res))
    /\ UNCHANGED <<procVars, fetchVars, localVars, ratesDocId, ratesStore,
                   legacyStore, nextId>>

NextP0Run ==
    \/ \E e \in P0Envs : P0Entry(e)
    \/ \E body \in FiatBodies : P0FiatOk(body)
    \/ \E e \in HttpErrors : P0FiatFail(e)
    \/ \E src \in CryptoSources : P0CryptoPage(src)
    \/ \E e \in HttpErrors : P0CryptoFail(e)
    \/ \E f \in {"fiat", "crypto"} : P0Timer(f)
    \/ P0AfterFetch
    \/ \E res \in {"ok", "query failed"} : P0RatesLookup(res)
    \/ \E res \in {"ok", "unavailable", "not found"} : P0RatesUpdate(res)
    \/ \E res \in {"ok", "unavailable", "conflict"} : P0RatesCreate(res)
    \/ \E res \in {"ok", "unavailable", "conflict"} : P0DailyMetaCreate(res)
    \/ \E res \in {"ok", "unavailable", "not found"} : P0DailyMetaUpdate(res)
    \/ NextP0

SpecP0Run == InitP0Run /\ [][NextP0Run]_vars

\* the run of part_000 is over, found no crypto key, fetched a fiat payload
\* with every required currency, has its store ids and met no store failure
C23NoKey ==
    /\ pc = "done"
    /\ runs > 0
    /\ Falsy(env, "CRYPTORANK_API_KEY")
    /\ fiatJson \in FiatValid
    /\ p0MissingIds(env) = ""
    /\ faults = 0

\* C23: in part_000 an absent crypto API key is not fatal: the crypto fetch
\* returns the empty list and the run still succeeds, having written the
\* day's rates record with empty crypto rates and skipped the metadata
\* upsert.
C23_KeylessRunSucceeds ==
    C23NoKey =>
        /\ cryptoRaw = <<>>
        /\ Returned /\ result.ok
        /\ \E i \in 1..Len(ratesStore) :
              /\ ratesStore[i].date = DateKey(clock)
              /\ ratesStore[i].cryptoRates = StringifyPairs(<<>>)
        /\ \A i \in 1..Len(ops) : ops[i].store # "meta"

\* what the code does instead: the keyless run is refused by the sanity
\* check and has issued no store operation
C23_KeylessRunAborted ==
    /\ C23NoKey
    /\ Failed("Error: Sanity check failed, aborting save")
    /\ cryptoRaw = <<>>
    /\ ops = <<>>

(***************************************************************************)
(* The transform of the crypto rows (main.js:240-263) on its own: the rows *)
(* are drawn from lists with repeated symbols and with symbols that are    *)
(* integers in decimal, and the step computes cryptoRates and cryptoMeta.  *)
(***************************************************************************)
TransformRows ==
    {Row("BTC", 1, 5), Row("ETH", 2, 6), Row("ETH", 3, 7), Row("42", 4, 8),
     Row("7", 5, 9)}

RowLists == UNION {[1..n -> TransformRows] : n \in 0..MaxRows}

InitTransform ==
    /\ pc = "transform"
    /\ fw = [f \in Fetchers |-> IdleFetch]
    /\ cr = IdleCrypto
    /\ cryptoSrc = NoSource
    /\ script = <<>>
    /\ clock = 1
    /\ runs = 1
    /\ env = BaseEnv
    /\ globalCtx = 1
    /\ crash = NoCrash
    /\ fiatRes = NoPromise
    /\ cryptoRes = NoPromise
    /\ fiatJson = MigFiat
    /\ cryptoRaw \in RowLists
    /\ dateStr = ""
    /\ ratesRecord = NoRecord
    /\ ratesDocId = ""
    /\ ratesStore = <<>>
    /\ metaStore = <<>>
    /\ legacyStore = <<>>
    /\ nextId = 1
    /\ faults = 0
    /\ ops = <<>>
    /\ mig = IdleMig
    /\ result = NoResult
    /\ prev = NoPrev

\* main.js:240-263: cryptoRates and cryptoMeta of the rows
Transform ==
    /\ pc = "transform"
    /\ pc' = "transformed"
    /\ result' = [kind |-> "transform",
                  cryptoRates |-> cryptoRatesOf(cryptoRaw),
                  cryptoMeta |-> cryptoMetaOf(cryptoRaw)]
    /\ UNCHANGED <<procVars, fetchVars, localVars, ratesDocId, storeVars, ops, mig>>

SpecTransform == InitTransform /\ [][Transform]_vars

\* the symbols of the rows, each once, in the order of their first row
C24FirstSymbols(rows) ==
    LET first == {i \in 1..Len(rows) :
                    \A j \in 1..(i - 1) : rows[j].symbol # rows[i].symbol}
    IN  [k \in 1..Cardinality(first) |->
            rows[CHOOSE i \in first :
                    Cardinality({j \in first : j <= i}) = k].symbol]

\* the last row with symbol s
C24LastRow(rows, s) ==
    rows[CHOOSE i \in 1..Len(rows) :
            /\ rows[i].symbol = s
            /\ \A j \in (i + 1)..Len(rows) : rows[j].symbol # s]

\* C24: the transform removes no duplicate: the (symbol, price) pairs are one
\* per row in source order, and the symbol-to-metadata mapping holds for
\* each symbol the fields of the last row with that symbol, its keys in the
\* order of their first occurrence.
C24_TransformKeepsDuplicates ==
    pc = "transformed" =>
        /\ Len(result.cryptoRates) = Len(cryptoRaw)
        /\ \A i \in 1..Len(cryptoRaw) :
              result.cryptoRates[i] = <<cryptoRaw[i].symbol, cryptoRaw[i].price>>
        /\ [i \in 1..Len(result.cryptoMeta) |-> result.cryptoMeta[i].key]
              = C24FirstSymbols(cryptoRaw)
        /\ \A i \in 1..Len(result.cryptoMeta) :
              LET r == C24LastRow(cryptoRaw, result.cryptoMeta[i].key)
              IN  result.cryptoMeta[i].val = [id |-> r.id, price |-> r.price]

\* what the code does: a symbol that is an integer in decimal is enumerated
\* before a symbol that came first
C24_IndexKeyFirst ==
    /\ pc = "transformed"
    /\ cryptoRaw = <<Row("BTC", 1, 5), Row("42", 4, 8)>>
    /\ result.cryptoMeta[1].key = "42"
    /\ result.cryptoMeta[2].key = "BTC"

(***************************************************************************)
(* The page cap for every override (checked under SpecCrypto).             *)
(***************************************************************************)
\* C25: for every value of CRYPTORANK_MAX_PAGES the effective cap is a
\* number >= 1, and against a source of full pages the call requests at
\* most that many pages, so it terminates.
C25_CapBoundsPagination ==
    cr.pageCount > 0 =>
        /\ cr.maxPages.kind = "num"
        /\ cr.maxPages.num >= cr.maxPages.den
        /\ cryptoSrc = Endless =>
              cr.pageCount * cr.maxPages.den <= cr.maxPages.num

\* what the code does for an override that is no number: the cap is NaN and
\* the call is still requesting pages beyond the default cap
C25_NaNCapNeverStops ==
    /\ cr.maxPagesEnv = Str(<<"a", "b", "c">>)
    /\ cr.maxPages = NaN
    /\ cryptoSrc = Endless
    /\ cr.st = "running"
    /\ cr.pageCount > MaxPageCount
    /\ Len(cr.out) = limit * MaxPageCount

(***************************************************************************)
(* The migration and the run's result (checked under Spec).                *)
(***************************************************************************)
\* the daily upserts of the run are over and both succeeded: the last
\* operation on the primary store wrote the record under ratesDocId, and the
\* last operation of all wrote the metadata record of the date
C26UpsertsDone ==
    /\ Len(ops) >= 2
    /\ ops[Len(ops)].store = "meta"
    /\ ops[Len(ops)].op \in {"create", "update"}
    /\ ops[Len(ops)].id = dateStr
    /\ ops[Len(ops)].ok = "ok"
    /\ LET rates == SelectSeq(ops, LAMBDA o : o.store = "rates")
       IN  /\ rates # <<>>
           /\ rates[Len(rates)].op \in {"create", "update"}
           /\ rates[Len(rates)].id = ratesDocId
           /\ rates[Len(rates)].ok = "ok"
    /\ HasId(ratesStore, ratesDocId)
    /\ HasId(metaStore, dateStr)

C26Inv ==
    /\ mig # IdleMig => C26UpsertsDone
    /\ (mig # IdleMig /\ ~MigOver(mig)) => (pc = pcOfMig(mig) /\ result = NoResult)
    /\ MigOver(mig) => (pc = "done" /\ result = okRes(ratesDocId))

\* a step taken while the migration is at work leaves the identifier and
\* the daily operations alone, and sets no result but the success
C26Step ==
    (mig # IdleMig /\ ~MigOver(mig)) =>
        /\ ratesDocId' = ratesDocId
        /\ ops' = ops
        /\ result' \in {NoResult, okRes(ratesDocId)}

\* C26: the migration starts only after the primary rates upsert and the
\* metadata upsert of the run have succeeded, and whether it completes, is
\* skipped or crashes, the run returns ok:true with the ratesDocId written
\* before the migration.
C26_MigrationNeverChangesResult == []C26Inv /\ [][C26Step]_vars

\* a run whose migration crashed on a page listing after it had migrated a
\* record returned the success result
C26_CrashedMigrationStillOk ==
    /\ pc = "done"
    /\ mig.st = "crashed"
    /\ mig.lists > 0
    /\ Succeeded
    /\ result.ratesDocId = ratesDocId
    /\ C26UpsertsDone

(***************************************************************************)
(* What the migration of main.js touches (checked under SpecMig).          *)
(***************************************************************************)
C27Allowed ==
    {<<"legacy", "list">>, <<"rates", "list">>, <<"rates", "update">>,
     <<"rates", "create">>}

C27Inv ==
    /\ mig.touched \subseteq C27Allowed
    /\ \A i \in 1..Len(mig.ops) : mig.ops[i].store = "rates"
    /\ legacyStore \in MigStores
    /\ metaStore = createDocument(<<>>, DateKey(1), metaPayloadOf(DateKey(1), SrcShort))

\* a step of the migration changes neither the metadata store nor the legacy
\* store, and changes the primary store by a create or an update only
C27Step ==
    pc \in {"migList", "migLookup", "migUpdate", "migCreate"} =>
        /\ metaStore' = metaStore
        /\ legacyStore' = legacyStore
        /\ ratesStore' # ratesStore =>
              /\ pc \in {"migUpdate", "migCreate"}
              /\ Len(ratesStore') = Len(ratesStore) + (IF pc = "migCreate" THEN 1 ELSE 0)

\* C27: the migration of main.js is rates-only: for every legacy store
\* content it issues creates and updates on the new primary rates store
\* only; the metadata store and every legacy record stay as they were, the
\* legacy store being listed only.
C27_MigrationIsRatesOnly == []C27Inv /\ [][C27Step]_vars

\* a migration over a legacy store of two records is complete, has created
\* and updated records of the primary store, and the metadata store still
\* holds today's record only
C27_MigratedWithoutMeta ==
    /\ pc = "done"
    /\ mig.st = "complete"
    /\ legacyStore = LegacySmall
    /\ mig.movedRates = 2
    /\ mig.touched = C27Allowed
    /\ Len(ratesStore) = 2
    /\ Len(metaStore) = 1

(***************************************************************************)
(* What a successful run has written (checked under Spec).                 *)
(***************************************************************************)
\* the run is past the sanity check and has not returned
C28Upserting ==
    pc \in C21DailyAwait \cup {"migList", "migLookup", "migUpdate", "migCreate"}

\* C28: every run that returns ok:true has written the primary rates record
\* and the metadata record under the one date key computed in that run; the
\* branch that skips the metadata upsert is never taken, because a run at
\* the upserts has crypto rows with BTC among them.
C28_SuccessWroteBothRecords ==
    /\ C28Upserting =>
          /\ dateStr = DateKey(clock)
          /\ cryptoRaw # <<>>
          /\ hasBTC(cryptoRatesOf(cryptoRaw))
          /\ ratesRecord.date = dateStr
    /\ (C28Upserting \/ Succeeded) =>
          \A i \in 1..Len(ops) :
             /\ ops[i].op = "list" => ops[i].id = dateStr
             /\ ops[i].store = "meta" => ops[i].id = dateStr
    /\ Succeeded =>
          /\ cryptoRaw # <<>>
          /\ \E i \in 1..Len(ops) :
                /\ ops[i] = Op("rates", ops[i].op, ratesDocId, "ok")
                /\ ops[i].op \in {"create", "update"}
          /\ ops[Len(ops)] \in {Op("meta", "create", dateStr, "ok"),
                                Op("meta", "update", dateStr, "ok")}
          /\ \E i \in 1..Len(ratesStore) :
                /\ ratesStore[i].id = ratesDocId
                /\ ratesStore[i].date = dateStr
          /\ \E i \in 1..Len(metaStore) :
                /\ metaStore[i].id = dateStr
                /\ metaStore[i].date = dateStr
                /\ metaStore[i].cryptoMeta = StringifyMeta(cryptoMetaOf(cryptoRaw))

\* the second run of a day succeeded: it updated the rates record it found
\* and, the create being refused, updated the metadata record of the day
C28_BothUpdatedOnSecondRun ==
    /\ Succeeded
    /\ runs = 2
    /\ ops = <<Op("rates", "list", dateStr, "ok"),
               Op("rates", "update", ratesDocId, "ok"),
               Op("meta", "create", dateStr, "conflict"),
               Op("meta", "update", dateStr, "ok")>>

(***************************************************************************)
(* Failure results and the stores (checked under Spec).                    *)
(***************************************************************************)
\* the failures that precede every store call
C29EarlyFailures ==
    {"Missing required env vars", "Fiat fetch failed", "Crypto fetch failed",
     "Sanity check failed"}

C29MetaFailed ==
    /\ Len(ops) >= 2
    /\ ops[Len(ops) - 1].store = "meta" /\ ops[Len(ops) - 1].op = "create"
    /\ ops[Len(ops) - 1].ok # "ok"
    /\ ops[Len(ops)].store = "meta" /\ ops[Len(ops)].op = "update"
    /\ ops[Len(ops)].ok # "ok"

C29Inv ==
    /\ (Returned /\ ~result.ok /\ result.error \in C29EarlyFailures) =>
          /\ ops = <<>>
          /\ mig = IdleMig
          /\ dateStr = ""
    /\ (pc = "done" /\ C29MetaFailed) => Failed("cryptoMeta upsert failed")
    /\ Failed("cryptoMeta upsert failed") =>
          /\ result.status = 500
          /\ C29MetaFailed
          /\ mig = IdleMig
          /\ \E i \in 1..(Len(ops) - 2) :
                /\ ops[i] = Op("rates", ops[i].op, ratesDocId, "ok")
                /\ ops[i].op \in {"create", "update"}
                /\ \A j \in (i + 1)..Len(ops) : ops[j].store = "meta"
          /\ \E i \in 1..Len(ratesStore) :
                ratesStore[i] = [id |-> ratesDocId] @@ ratesRecord
          /\ runs = 1 => ~HasId(metaStore, dateStr)

\* no store changes while no store operation is awaited: before the upserts
\* and after the return
C29Step ==
    pc \in {"idle", "fetching", "done"} =>
        /\ ratesStore' = ratesStore
        /\ metaStore' = metaStore
        /\ legacyStore' = legacyStore

\* C29: a failure result implies unchanged stores for configuration, fetch
\* and sanity failures only: when the metadata upsert fails for good after
\* the primary upsert succeeded, the run returns ok:false ('cryptoMeta
\* upsert failed') while the rates record of the date stays written (no
\* rollback) and the migration is not run.
C29_MetaFailureLeavesRatesWritten == []C29Inv /\ [][C29Step]_vars

\* a first run created the rates record and then failed on the metadata
\* upsert: it returned the failure, the record is in the store
C29_RatesWrittenMetaFailed ==
    /\ Failed("cryptoMeta upsert failed")
    /\ runs = 1
    /\ EnvGet(env, "MIGRATE_TO_NEW_DB") = Str(<<"1">>)
    /\ Len(ratesStore) = 1
    /\ ratesStore[1].id = ratesDocId
    /\ metaStore = <<>>
    /\ mig = IdleMig

====
